---- MODULE Spec2Model ----
(***************************************************************************)
(* The per-call media-stream relay of src/server.js.                       *)
(*                                                                         *)
(* server.js holds two definitions of the /media-stream WebSocket handler: *)
(*   - the noise-gate handler   (lines 164-304), with cleanupSession and   *)
(*     the isCleanedUp flag;                                               *)
(*   - the Redis-backed handler (lines 515-655), which awaits redis.get    *)
(*     in its 'start' branch and has no cleanup flag.                      *)
(* Spec models one connection; `variant` says which handler serves it.     *)
(* SpecTwo models two concurrent connections of the noise-gate handler.    *)
(* StoreSpec runs the Redis-backed handler next to POST /make-call.        *)
(* CodecSpec applies the codec functions (lines 67-142) to their inputs.   *)
(* AgentSpec models the dashboard's AgentInterface component (src/unnamed/ *)
(* part_003 and part_004), AppSpec the customer list of src/App.tsx.       *)
(*                                                                         *)
(* JavaScript's run-to-completion semantics are modelled as they are: a    *)
(* handler's synchronous part is one action; a promise keeps its reactions *)
(* in registration order; when the promise settles the reactions become    *)
(* microtasks; no event (macrotask) is handled while a microtask is        *)
(* runnable.                                                               *)
(***************************************************************************)
EXTENDS Integers, Sequences, FiniteSets, TLC

VARIABLES
    variant,        \* "noiseGate" | "redis": which handler serves the connection
    sessionPromise, \* 0 = null, else the id of the promise ai.live.connect returned
    streamSid,      \* "null" or data.start.streamSid
    callSid,        \* "null" or data.start.callSid
    isCleanedUp,    \* the noise-gate handler's flag
    readyState,     \* connection.socket.readyState: 1 OPEN, 2 CLOSING, 3 CLOSED
    promise,        \* promise id -> [state, reactions]
    microtasks,     \* the runnable promise reactions, first in first out
    redisPending,   \* 'start' handlers suspended at await redis.get, oldest first
    transfers,      \* toolCall branches suspended at await client.calls(..).update
    aiLog,          \* promise id -> the calls made on the session it resolved to
    instruction,    \* promise id -> the systemInstruction given to ai.live.connect,
                    \*   with the lookup it came from
    written,        \* what connection.socket.send was called with, in order
    callUpdates,    \* the call-control updates that were answered, in order
    mediaIn,        \* history: the 'media' messages delivered, with what held on arrival
    aiIn,           \* history: the backend messages delivered, with what held on arrival
    closing,        \* history: a 'stop', socket 'close' or socket 'error' was handled
    aiErrors,       \* history: the sessions whose callbacks.onerror has fired
    events,         \* the number of events (macrotasks) handled so far
    conns,          \* two connections: connection -> the handler's local variables
    handles,        \* two connections: promise id -> the promise ai.live.connect returned
    processUp,      \* two connections: the server process is running
    codec,          \* codec functions: the function applied, its argument and result
    redisKeys,      \* the callSids whose key call:<callSid>:instruction is in Redis
    requests,       \* the POST /make-call requests, each with how far its handler got
    agent,          \* dashboard: the AgentInterface component's state and refs
    app             \* dashboard: App's customers state and the stored customer list

vars == <<variant, sessionPromise, streamSid, callSid, isCleanedUp, readyState,
          promise, microtasks, redisPending, transfers, aiLog, instruction,
          written, callUpdates, mediaIn, aiIn, closing, aiErrors, events,
          conns, handles, processUp, codec, redisKeys, requests, agent, app>>

storeVars == <<redisKeys, requests>>

dashboardVars == <<agent, app>>

(***************************************************************************)
(* Bounds of the model.                                                    *)
(***************************************************************************)
MaxEvents == 6
MaxRequests == 2
MaxToolMsgs == 2
MaxHangUps == 2
MaxCalls == 1
MaxCompleted == 3
MaxEdits == 2
MaxStarts == 2
MaxMedia == 2
MaxAiMsgs == 2

NOISE_THRESHOLD == 800

OPEN == 1
CLOSING == 2
CLOSED == 3

PromiseIds == 1..MaxStarts

(***************************************************************************)
(* Audio helpers, computed as the code computes them.                      *)
(***************************************************************************)
\* A value stored into an Int16Array element is truncated and wraps modulo 2^16.
ToInt16(x) ==
    LET m == x % 65536 IN IF m >= 32768 THEN m - 65536 ELSE m

\* Division that rounds toward minus infinity.
FloorDiv(a, b) == a \div b

\* JavaScript number division followed by the Int16Array store's truncation.
TruncDiv(a, b) ==
    IF a >= 0 THEN a \div b ELSE -((-a) \div b)

Pow2(n) ==
    CASE n = 0 -> 1 [] n = 1 -> 2 [] n = 2 -> 4 [] n = 3 -> 8 [] n = 4 -> 16
      [] n = 5 -> 32 [] n = 6 -> 64 [] n = 7 -> 128 [] n = 8 -> 256
      [] n = 9 -> 512 [] n = 10 -> 1024 [] n = 11 -> 2048 [] n = 12 -> 4096

\* ~ulawByte keeps, in its low eight bits, 255 - ulawByte.
muLawToLinear(ulawByte) ==
    LET inv == 255 - ulawByte
        sign == inv \div 128
        exponent == (inv \div 16) % 8
        mantissa == inv % 16
        sample == (2 * mantissa + 33) * Pow2(12 - exponent)
    IN  IF sign = 1 THEN -sample ELSE sample

\* upsampleTo16k without the copy that follows the last sample.
upsampleTo16kOpenEnded(input) ==
    LET n == Len(input)
    IN  [k \in 1..(IF n = 0 THEN 0 ELSE 2 * n - 1) |->
            LET i == (k + 1) \div 2
            IN  IF k % 2 = 1 THEN input[i]
                ELSE ToInt16(TruncDiv(input[i] + input[i + 1], 2))]

upsampleTo16k(input) ==
    LET n == Len(input)
    IN  [k \in 1..(2 * n) |->
            LET i == (k + 1) \div 2
            IN  IF k % 2 = 1 THEN input[i]
                ELSE IF i < n THEN ToInt16(TruncDiv(input[i] + input[i + 1], 2))
                ELSE input[i]]

processTwilioAudio(payload) ==
    upsampleTo16k([i \in 1..Len(payload) |-> ToInt16(muLawToLinear(payload[i]))])

\* A value stored into a Uint8Array element wraps modulo 2^8.
ToUint8(x) == x % 256

\* The exponent loop: the highest i in 7..0 with (sample >> (i + 3)) > 0, and 7
\* when there is none.
ExponentOf(sample) ==
    LET hits == {i \in 0..7 : sample \div Pow2(i + 3) > 0}
    IN  IF hits = {} THEN 7 ELSE CHOOSE i \in hits : \A j \in hits : j <= i

\* mask ^ v is mask - v for the v <= 0x7F that occur, and ~y is -y - 1: the
\* number returned is negative; a Uint8Array keeps its low eight bits.
linearToMuLaw(pcmSample) ==
    LET mask == IF pcmSample < 0 THEN 127 ELSE 255
        magnitude == IF pcmSample < 0 THEN -pcmSample ELSE pcmSample
        sample == (IF magnitude > 32635 THEN 32635 ELSE magnitude) + 132
        exponent == ExponentOf(sample)
        mantissa == (sample \div Pow2(exponent + 3)) % 16
    IN  -(mask - (exponent * 16 + mantissa)) - 1

\* downsampleTo8k that keeps the first sample of each window.
downsampleTo8kDecimating(input) ==
    [i \in 1..(Len(input) \div 3) |-> input[3 * (i - 1) + 1]]

downsampleTo8k(input) ==
    [i \in 1..(Len(input) \div 3) |->
        LET idx == 3 * (i - 1)
        IN  IF idx + 2 < Len(input)
            THEN ToInt16(TruncDiv(input[idx + 1] + input[idx + 2] + input[idx + 3], 3))
            ELSE input[idx + 1]]

processGeminiAudio(pcm24k) ==
    LET downsampled == downsampleTo8k(pcm24k)
    IN  [i \in 1..Len(downsampled) |-> ToUint8(linearToMuLaw(downsampled[i]))]

RECURSIVE SumSquares(_)
SumSquares(pcm) ==
    IF pcm = <<>> THEN 0 ELSE Head(pcm) * Head(pcm) + SumSquares(Tail(pcm))

\* The largest r in lo..hi with r * r <= x.
RECURSIVE IsqrtIn(_, _, _)
IsqrtIn(lo, hi, x) ==
    IF lo = hi THEN lo
    ELSE LET mid == (lo + hi + 1) \div 2
         IN  IF mid * mid <= x THEN IsqrtIn(mid, hi, x) ELSE IsqrtIn(lo, mid - 1, x)

\* sumSquares / len as whole part and remainder, summed sample by sample
\* (sample * sample = q * len + r) so that no intermediate value leaves 32
\* bits; the code's doubles hold sumSquares exactly (it is below 2^53).
RECURSIVE MeanSquareParts(_, _)
MeanSquareParts(pcm, len) ==
    IF pcm = <<>> THEN [q |-> 0, r |-> 0]
    ELSE LET sq == Head(pcm) * Head(pcm)
             rest == MeanSquareParts(Tail(pcm), len)
         IN  [q |-> rest.q + (sq \div len), r |-> rest.r + (sq % len)]

\* calculateRMS that divides by the buffer's length in bytes.
calculateRMSOverBytes(pcm) ==
    LET len == 2 * Len(pcm)
        parts == MeanSquareParts(pcm, len)
        mean == parts.q + (parts.r \div len)
        root == IsqrtIn(0, 32768, mean)
    IN  IF len = 0 THEN [whole |-> 0, exact |-> TRUE]
        ELSE [whole |-> root,
              exact |-> parts.r % len = 0 /\ root * root = mean]

\* The number calculateRMS returns: its integer part, and whether it is that
\* integer exactly. Math.sqrt is correctly rounded, so the root of a perfect
\* square is exact.
calculateRMS(pcm) ==
    LET len == Len(pcm)
        parts == MeanSquareParts(pcm, len)
        mean == parts.q + (parts.r \div len)
        root == IsqrtIn(0, 32768, mean)
    IN  IF len = 0 THEN [whole |-> 0, exact |-> TRUE]
        ELSE [whole |-> root,
              exact |-> parts.r % len = 0 /\ root * root = mean]

\* rms > NOISE_THRESHOLD, with rms = (len = 0) ? 0 : sqrt(sumSquares / len):
\* the square root is monotone, so the comparison is the one of the squares.
PassesNoiseGate(pcm16k) ==
    /\ Len(pcm16k) # 0
    /\ SumSquares(pcm16k) > NOISE_THRESHOLD * NOISE_THRESHOLD * Len(pcm16k)

(***************************************************************************)
(* The inputs the environment draws from.                                  *)
(***************************************************************************)
\* mu-law payloads: one byte of digital silence (0xFF), which this decoder
\* expands to 4096; seven bytes alternating +1056 / -1056, whose interpolated
\* frame has an RMS below the threshold; and an empty payload.
LoudPayload == <<255>>
QuietPayload == <<143, 15, 143, 15, 143, 15, 143>>
Payloads == {LoudPayload, QuietPayload, <<>>}

StartMsgs == {[streamSid |-> "MZ1", callSid |-> "CA1"],
              [streamSid |-> "MZ2", callSid |-> "CA2"]}

(***************************************************************************)
(* Promises: sessionPromise.then(f) and `await sessionPromise`.            *)
(***************************************************************************)
\* A promise that ran its reactions last-registered first.
PromiseAfterThenLifo(pr, p, r) ==
    IF pr[p].state = "pending"
    THEN [pr EXCEPT ![p].reactions = <<r>> \o @]
    ELSE pr

\* p.then(r) on a pending promise appends r to p's reactions.
PromiseAfterThen(pr, p, r) ==
    IF pr[p].state = "pending"
    THEN [pr EXCEPT ![p].reactions = Append(@, r)]
    ELSE pr

\* p.then(r) on a settled promise queues r as a microtask at once.
MicrotasksAfterThen(pr, mt, p, r) ==
    IF pr[p].state = "pending"
    THEN mt
    ELSE Append(mt, [r |-> r, p |-> p, outcome |-> pr[p].state])

\* Settling p hands its reactions, in order, to the microtask queue.
SettledReactions(p, outcome) ==
    [i \in 1..Len(promise[p].reactions) |->
        [r |-> promise[p].reactions[i], p |-> p, outcome |-> outcome]]

NextPromise == Cardinality({p \in PromiseIds : promise[p].state # "none"}) + 1

NoPromise == [state |-> "none", reactions |-> <<>>]

\* The AgentInterface component before it is mounted.
Unmounted == [part |-> "none"]

\* const [customers, setCustomers] = useState([]) before the mount effect.
\* stored is localStorage's entry for DB_KEY: <<>> when the key is absent,
\* else <<list>>; saves counts the calls of db.saveCustomers, completed those
\* of handleCallComplete, edits those of the CRM panel and of the reset.
NewApp == [customers |-> <<>>, stored |-> <<>>, mounted |-> FALSE, clock |-> 0,
           saves |-> 0, completed |-> 0, edits |-> 0]

\* No codec function has been applied.
CodecIdle == [fn |-> "idle", arg |-> <<>>, res |-> <<>>]

\* No lookup: the noise-gate handler's instruction is a literal.
NoLookup == [key |-> "none", reply |-> "none", mock |-> {}]

NoInstruction == [text |-> "none", of |-> "none", lookup |-> NoLookup]

\* Two concurrent connections served by the noise-gate handler.
Conns == {1, 2}

\* let sessionPromise = null; let streamSid = null; let callSid = null;
\* let isCleanedUp = false;    -- one set per invocation of the handler
NewConn == [sessionPromise |-> 0, streamSid |-> "null", callSid |-> "null",
            isCleanedUp |-> FALSE]

NoHandle == [owner |-> 0, state |-> "none", reactions |-> <<>>, sent |-> 0,
             closed |-> FALSE, users |-> {}]

\* An event is handled only when no promise reaction is runnable.
Macrotask == microtasks = <<>> /\ events < MaxEvents

\* The promise ai.live.connect returns.
NewPromise == [state |-> "pending", reactions |-> <<>>]

\* A 'stop', socket 'close' or socket 'error' is being handled: it comes after
\* the opening of every session opened so far.
ClosingNow ==
    [begun |-> TRUE, after |-> {p \in PromiseIds : promise[p].state # "none"}]

Init ==
    /\ variant \in {"noiseGate", "redis"}
    /\ sessionPromise = 0
    /\ streamSid = "null"
    /\ callSid = "null"
    /\ isCleanedUp = FALSE
    /\ readyState = OPEN
    /\ promise = [p \in PromiseIds |-> NoPromise]
    /\ microtasks = <<>>
    /\ redisPending = <<>>
    /\ transfers = <<>>
    /\ aiLog = [p \in PromiseIds |-> <<>>]
    /\ instruction = [p \in PromiseIds |-> NoInstruction]
    /\ written = <<>>
    /\ callUpdates = <<>>
    /\ mediaIn = <<>>
    /\ aiIn = <<>>
    /\ closing = [begun |-> FALSE, after |-> {}]
    /\ aiErrors = {}
    /\ events = 0
    /\ conns = [c \in Conns |-> NewConn]
    /\ handles = [h \in PromiseIds |-> NoHandle]
    /\ processUp = TRUE
    /\ codec = CodecIdle
    /\ redisKeys = {}
    /\ requests = <<>>
    /\ agent = Unmounted
    /\ app = NewApp


(***************************************************************************)
(* What the realtime backend sends to callbacks.onmessage.                 *)
(***************************************************************************)
\* audio: parts[0] carries inlineData; chunks: the audio parts of the model
\* turn; sendThrows: connection.socket.send throws while the message is handled.
AiMsg(interrupted, audio, chunks, tool, extension, sendThrows) ==
    [interrupted |-> interrupted, audio |-> audio, chunks |-> chunks, tool |-> tool,
     extension |-> extension, sendThrows |-> sendThrows]

AiMsgs ==
    {AiMsg(FALSE, TRUE, 1, "none", "", FALSE),
     AiMsg(TRUE, FALSE, 0, "none", "", FALSE),
     AiMsg(TRUE, TRUE, 1, "none", "", FALSE),
     AiMsg(FALSE, FALSE, 0, "transferCall", "101", FALSE),
     AiMsg(FALSE, TRUE, 1, "transferCall", "+15551234567", FALSE),
     AiMsg(FALSE, TRUE, 2, "none", "", FALSE),
     AiMsg(FALSE, TRUE, 1, "none", "", TRUE),
     AiMsg(TRUE, FALSE, 0, "none", "", TRUE)}

\* What held when a 'media' message arrived: the value of sessionPromise,
\* whether that promise was still pending, and whether a 'start' branch was
\* suspended at its await redis.get.
MediaArrival(payload) ==
    [payload |-> payload,
     sp |-> sessionPromise,
     pending |-> sessionPromise # 0 /\ promise[sessionPromise].state = "pending",
     lookup |-> redisPending # <<>>]

\* What held when the backend's message for the session of promise p arrived.
AiArrival(p, msg) ==
    [msg |-> msg, p |-> p, rs |-> readyState, sid |-> streamSid]

\* ai.live.connect settles: the promise's reactions become runnable, in order.
ConnectResolves(p) ==
    /\ Macrotask
    /\ events' = events + 1
    /\ promise[p].state = "pending"
    /\ microtasks' = SettledReactions(p, "resolved")
    /\ promise' = [promise EXCEPT ![p].state = "resolved", ![p].reactions = <<>>]
    /\ UNCHANGED <<variant, sessionPromise, streamSid, callSid, isCleanedUp, readyState,
                   redisPending, transfers, aiLog, instruction, written, callUpdates,
                   mediaIn, aiIn, closing, aiErrors, conns, handles, processUp, codec,
                   redisKeys, requests, agent, app>>

ConnectRejects(p) ==
    /\ Macrotask
    /\ events' = events + 1
    /\ promise[p].state = "pending"
    /\ microtasks' = SettledReactions(p, "rejected")
    /\ promise' = [promise EXCEPT ![p].state = "rejected", ![p].reactions = <<>>]
    /\ UNCHANGED <<variant, sessionPromise, streamSid, callSid, isCleanedUp, readyState,
                   redisPending, transfers, aiLog, instruction, written, callUpdates,
                   mediaIn, aiIn, closing, aiErrors, conns, handles, processUp, codec,
                   redisKeys, requests, agent, app>>

\* callbacks.onerror of the session of promise p: both handlers only log.
OnAiError(p) ==
    /\ Macrotask
    /\ events' = events + 1
    /\ promise[p].state = "resolved"
    /\ p \notin aiErrors
    /\ aiErrors' = aiErrors \cup {p}
    /\ UNCHANGED <<variant, sessionPromise, streamSid, callSid, isCleanedUp, readyState,
                   promise, microtasks, redisPending, transfers, aiLog, instruction,
                   written, callUpdates, mediaIn, aiIn, closing, conns, handles,
                   processUp, codec, redisKeys, requests, agent, app>>

\* session.sendRealtimeInput(..) and session.close() on the session of promise p.
SendCall(f) == [op |-> "send", f |-> f, closing |-> closing.begun]
CloseCall == [op |-> "close", f |-> 0, closing |-> closing.begun]

SendReaction(f) == [k |-> "send", f |-> f]
CleanupReaction == [k |-> "cleanup", f |-> 0]

\* onmessage without its readyState check.
SocketWritableUnchecked == TRUE

\* if (connection.socket.readyState !== 1) return;
SocketWritable == readyState = OPEN

\* A call of connection.socket.send: threw says that the call threw, escaped
\* that the exception left callbacks.onmessage.
ClearEvent(seq) ==
    [event |-> "clear", streamSid |-> streamSid, seq |-> seq, rs |-> readyState,
     threw |-> FALSE, escaped |-> FALSE]

MediaEvent(seq) ==
    [event |-> "media", streamSid |-> streamSid, seq |-> seq, rs |-> readyState,
     threw |-> FALSE, escaped |-> FALSE]

(***************************************************************************)
(* The noise-gate handler, src/server.js lines 164-304.                    *)
(***************************************************************************)
\* cleanupSession without its isCleanedUp guard.
cleanupSessionUnguarded(pr, mt) ==
    /\ isCleanedUp' = TRUE
    /\ IF sessionPromise # 0
       THEN /\ promise' = PromiseAfterThen(pr, sessionPromise, CleanupReaction)
            /\ microtasks' = MicrotasksAfterThen(pr, mt, sessionPromise, CleanupReaction)
       ELSE /\ promise' = pr
            /\ microtasks' = mt

\* cleanupSession() up to its await; pr and mt are the promise table and the
\* microtask queue the caller has reached.
cleanupSession(pr, mt) ==
    IF isCleanedUp
    THEN /\ isCleanedUp' = isCleanedUp
         /\ promise' = pr
         /\ microtasks' = mt
    ELSE /\ isCleanedUp' = TRUE
         /\ IF sessionPromise # 0
            THEN /\ promise' = PromiseAfterThen(pr, sessionPromise, CleanupReaction)
                 /\ microtasks' = MicrotasksAfterThen(pr, mt, sessionPromise, CleanupReaction)
            ELSE /\ promise' = pr
                 /\ microtasks' = mt

\* A 'start' branch that leaves the open to a later message.
OnStartDeferred(st) ==
    /\ variant = "noiseGate"
    /\ Macrotask
    /\ readyState # CLOSED
    /\ NextPromise <= MaxStarts
    /\ events' = events + 1
    /\ streamSid' = st.streamSid
    /\ callSid' = st.callSid
    /\ UNCHANGED <<variant, sessionPromise, isCleanedUp, readyState, promise, microtasks,
                   redisPending, transfers, aiLog, instruction, written, callUpdates,
                   mediaIn, aiIn, closing, aiErrors, conns, handles, processUp, codec,
                   redisKeys, requests, agent, app>>

OnStart(st) ==
    /\ variant = "noiseGate"
    /\ Macrotask
    /\ readyState # CLOSED
    /\ NextPromise <= MaxStarts
    /\ events' = events + 1
    /\ streamSid' = st.streamSid
    /\ callSid' = st.callSid
    /\ sessionPromise' = NextPromise
    /\ promise' = [promise EXCEPT ![NextPromise] = NewPromise]
    /\ instruction' = [instruction EXCEPT ![NextPromise] =
                          [text |-> "You are a helpful office receptionist for Namaste Tech.",
                           of |-> "none", lookup |-> NoLookup]]
    /\ UNCHANGED <<variant, isCleanedUp, readyState, microtasks, redisPending, transfers,
                   aiLog, written, callUpdates, mediaIn, aiIn, closing, aiErrors, conns,
                   handles, processUp, codec, redisKeys, requests, agent, app>>

\* A 'media' branch that opens the session itself when none exists yet.
OnMediaLazyOpen(payload) ==
    /\ variant = "noiseGate"
    /\ Macrotask
    /\ readyState # CLOSED
    /\ Len(mediaIn) < MaxMedia
    /\ events' = events + 1
    /\ mediaIn' = Append(mediaIn, MediaArrival(payload))
    /\ LET f == Len(mediaIn) + 1
       IN  IF sessionPromise # 0 /\ PassesNoiseGate(processTwilioAudio(payload))
           THEN /\ promise' = PromiseAfterThen(promise, sessionPromise, SendReaction(f))
                /\ microtasks' = MicrotasksAfterThen(promise, microtasks, sessionPromise,
                                                     SendReaction(f))
                /\ UNCHANGED sessionPromise
           ELSE IF sessionPromise = 0 /\ NextPromise <= MaxStarts
           THEN /\ sessionPromise' = NextPromise
                /\ promise' = [promise EXCEPT ![NextPromise] = NewPromise]
                /\ UNCHANGED microtasks
           ELSE UNCHANGED <<sessionPromise, promise, microtasks>>
    /\ UNCHANGED <<variant, streamSid, callSid, isCleanedUp, readyState, redisPending,
                   transfers, aiLog, instruction, written, callUpdates, aiIn, closing,
                   aiErrors, conns, handles, processUp, codec, redisKeys, requests,
                   agent, app>>

OnMedia(payload) ==
    /\ variant = "noiseGate"
    /\ Macrotask
    /\ readyState # CLOSED
    /\ Len(mediaIn) < MaxMedia
    /\ events' = events + 1
    /\ mediaIn' = Append(mediaIn, MediaArrival(payload))
    /\ LET f == Len(mediaIn) + 1
       IN  IF sessionPromise # 0 /\ PassesNoiseGate(processTwilioAudio(payload))
           THEN /\ promise' = PromiseAfterThen(promise, sessionPromise, SendReaction(f))
                /\ microtasks' = MicrotasksAfterThen(promise, microtasks, sessionPromise,
                                                     SendReaction(f))
           ELSE UNCHANGED <<promise, microtasks>>
    /\ UNCHANGED <<variant, sessionPromise, streamSid, callSid, isCleanedUp, readyState,
                   redisPending, transfers, aiLog, instruction, written, callUpdates,
                   aiIn, closing, aiErrors, conns, handles, processUp, codec, redisKeys,
                   requests, agent, app>>

OnStop ==
    /\ variant = "noiseGate"
    /\ Macrotask
    /\ readyState # CLOSED
    /\ events' = events + 1
    /\ closing' = ClosingNow
    /\ cleanupSession(promise, microtasks)
    /\ UNCHANGED <<variant, sessionPromise, streamSid, callSid, readyState, redisPending,
                   transfers, aiLog, instruction, written, callUpdates, mediaIn, aiIn,
                   aiErrors, conns, handles, processUp, codec, redisKeys, requests,
                   agent, app>>

\* A frame the try block throws on: JSON.parse fails ("badJson"), data.start is
\* missing ("startNoBody"), or data.media is missing ("mediaNoBody"; that
\* branch is only entered when sessionPromise is set).
MalformedKinds == {"badJson", "startNoBody", "mediaNoBody"}

OnMalformed(kind) ==
    /\ variant = "noiseGate"
    /\ Macrotask
    /\ readyState # CLOSED
    /\ events' = events + 1
    /\ IF kind = "mediaNoBody" /\ sessionPromise = 0
       THEN UNCHANGED <<isCleanedUp, promise, microtasks>>
       ELSE cleanupSession(promise, microtasks)
    /\ UNCHANGED <<variant, sessionPromise, streamSid, callSid, readyState, redisPending,
                   transfers, aiLog, instruction, written, callUpdates, mediaIn, aiIn,
                   closing, aiErrors, conns, handles, processUp, codec, redisKeys,
                   requests, agent, app>>

OnSocketClose ==
    /\ variant = "noiseGate"
    /\ Macrotask
    /\ events' = events + 1
    /\ readyState # CLOSED
    /\ readyState' = CLOSED
    /\ closing' = ClosingNow
    /\ cleanupSession(promise, microtasks)
    /\ UNCHANGED <<variant, sessionPromise, streamSid, callSid, redisPending, transfers,
                   aiLog, instruction, written, callUpdates, mediaIn, aiIn, aiErrors,
                   conns, handles, processUp, codec, redisKeys, requests, agent, app>>

OnSocketError ==
    /\ variant = "noiseGate"
    /\ Macrotask
    /\ events' = events + 1
    /\ readyState = OPEN
    /\ readyState' = CLOSING
    /\ closing' = ClosingNow
    /\ cleanupSession(promise, microtasks)
    /\ UNCHANGED <<variant, sessionPromise, streamSid, callSid, redisPending, transfers,
                   aiLog, instruction, written, callUpdates, mediaIn, aiIn, aiErrors,
                   conns, handles, processUp, codec, redisKeys, requests, agent, app>>

\* onmessage whose interrupted branch does not return.
OnMessageWritesFallThrough(msg, seq) ==
    IF ~SocketWritable THEN <<>>
    ELSE (IF msg.interrupted THEN <<ClearEvent(seq)>> ELSE <<>>)
             \o (IF msg.audio THEN <<MediaEvent(seq)>> ELSE <<>>)

\* callbacks.onmessage: what it writes to the provider socket for message msg.
\* The 'clear' send is unguarded; the 'media' send sits in a try/catch.
OnMessageWrites(msg, seq) ==
    IF ~SocketWritable THEN <<>>
    ELSE IF msg.interrupted
    THEN <<[ClearEvent(seq) EXCEPT !.threw = msg.sendThrows, !.escaped = msg.sendThrows]>>
    ELSE IF msg.audio THEN <<[MediaEvent(seq) EXCEPT !.threw = msg.sendThrows]>>
    ELSE <<>>

\* The catch around the 'media' send is entered.
MediaSendCaught(msg) ==
    SocketWritable /\ ~msg.interrupted /\ msg.audio /\ msg.sendThrows

OnAiMessage(p, msg) ==
    /\ variant = "noiseGate"
    /\ Macrotask
    /\ promise[p].state = "resolved"
    /\ Len(aiIn) < MaxAiMsgs
    /\ events' = events + 1
    /\ aiIn' = Append(aiIn, AiArrival(p, msg))
    /\ written' = written \o OnMessageWrites(msg, Len(aiIn) + 1)
    /\ IF MediaSendCaught(msg)
       THEN cleanupSession(promise, microtasks)
       ELSE UNCHANGED <<isCleanedUp, promise, microtasks>>
    /\ UNCHANGED <<variant, sessionPromise, streamSid, callSid, readyState, redisPending,
                   transfers, aiLog, instruction, callUpdates, mediaIn, closing,
                   aiErrors, conns, handles, processUp, codec, redisKeys, requests,
                   agent, app>>

\* One promise reaction runs: the .then / .catch pair of the 'media' branch, or
\* the rest of cleanupSession after its await.
RunMicrotask ==
    /\ variant = "noiseGate"
    /\ microtasks # <<>>
    /\ LET m == Head(microtasks)
           rest == Tail(microtasks)
       IN  CASE m.r.k = "send" /\ m.outcome = "resolved" ->
                    /\ aiLog' = [aiLog EXCEPT ![m.p] = Append(@, SendCall(m.r.f))]
                    /\ microtasks' = rest
                    /\ UNCHANGED <<isCleanedUp, promise>>
             [] m.r.k = "send" /\ m.outcome = "rejected" ->
                    /\ cleanupSession(promise, rest)
                    /\ UNCHANGED aiLog
             [] m.r.k = "cleanup" /\ m.outcome = "resolved" ->
                    /\ aiLog' = [aiLog EXCEPT ![m.p] = Append(@, CloseCall)]
                    /\ microtasks' = rest
                    /\ UNCHANGED <<isCleanedUp, promise>>
             [] m.r.k = "cleanup" /\ m.outcome = "rejected" ->
                    /\ microtasks' = rest
                    /\ UNCHANGED <<isCleanedUp, promise, aiLog>>
    /\ UNCHANGED <<variant, sessionPromise, streamSid, callSid, readyState, redisPending,
                   transfers, instruction, written, callUpdates, mediaIn, aiIn, closing,
                   aiErrors, events, conns, handles, processUp, codec, redisKeys,
                   requests, agent, app>>

(***************************************************************************)
(* The Redis-backed handler, src/server.js lines 515-655.                  *)
(***************************************************************************)
StopCloseReaction == [k |-> "stopClose", f |-> 0]
CloseHandlerReaction == [k |-> "closeHandler", f |-> 0]

DefaultInstruction == [text |-> "You are a helpful AI receptionist.", of |-> "none"]

\* The systemInstruction /make-call stored for the call sid.
StoredInstruction(sid) == [text |-> "systemInstruction", of |-> sid]

\* What await redis.get(..) gives the 'start' branch: the stored text, null, or
\* an exception.
RedisReplies == {"hit", "miss", "error"}

\* global.mockCache as /make-call left it: the call sids it holds a text for
\* (none when it was never created).
MockCaches == {{}, {"CA1", "CA2"}}

\* The key is built before the await; the catch block reads callSid after it.
InstructionFor(reply, key, mock) ==
    IF reply = "hit" THEN StoredInstruction(key)
    ELSE IF reply = "error" /\ callSid \in mock THEN StoredInstruction(callSid)
    ELSE DefaultInstruction

\* The 'start' branch up to its await redis.get.
RedisOnStart(st) ==
    /\ variant = "redis"
    /\ Macrotask
    /\ readyState # CLOSED
    /\ NextPromise + Len(redisPending) <= MaxStarts
    /\ events' = events + 1
    /\ streamSid' = st.streamSid
    /\ callSid' = st.callSid
    /\ redisPending' = Append(redisPending, st.callSid)
    /\ UNCHANGED <<variant, sessionPromise, isCleanedUp, readyState, promise, microtasks,
                   transfers, aiLog, instruction, written, callUpdates, mediaIn, aiIn,
                   closing, aiErrors, conns, handles, processUp, codec, redisKeys,
                   requests, agent, app>>

\* The rest of the 'start' branch, once redis.get has settled.
RedisGetSettles(reply, mock) ==
    /\ variant = "redis"
    /\ Macrotask
    /\ events' = events + 1
    /\ redisPending # <<>>
    /\ redisPending' = Tail(redisPending)
    /\ sessionPromise' = NextPromise
    /\ promise' = [promise EXCEPT ![NextPromise] = NewPromise]
    /\ instruction' = [instruction EXCEPT ![NextPromise] =
                          [text |-> InstructionFor(reply, Head(redisPending), mock).text,
                           of |-> InstructionFor(reply, Head(redisPending), mock).of,
                           lookup |-> [key |-> Head(redisPending), reply |-> reply,
                                       mock |-> mock]]]
    /\ UNCHANGED <<variant, streamSid, callSid, isCleanedUp, readyState, microtasks,
                   transfers, aiLog, written, callUpdates, mediaIn, aiIn, closing,
                   aiErrors, conns, handles, processUp, codec, redisKeys, requests,
                   agent, app>>

RedisOnMedia(payload) ==
    /\ variant = "redis"
    /\ Macrotask
    /\ readyState # CLOSED
    /\ Len(mediaIn) < MaxMedia
    /\ events' = events + 1
    /\ mediaIn' = Append(mediaIn, MediaArrival(payload))
    /\ LET f == Len(mediaIn) + 1
       IN  IF sessionPromise # 0
           THEN /\ promise' = PromiseAfterThen(promise, sessionPromise, SendReaction(f))
                /\ microtasks' = MicrotasksAfterThen(promise, microtasks, sessionPromise,
                                                     SendReaction(f))
           ELSE UNCHANGED <<promise, microtasks>>
    /\ UNCHANGED <<variant, sessionPromise, streamSid, callSid, isCleanedUp, readyState,
                   redisPending, transfers, aiLog, instruction, written, callUpdates,
                   aiIn, closing, aiErrors, conns, handles, processUp, codec, redisKeys,
                   requests, agent, app>>

RedisOnStop ==
    /\ variant = "redis"
    /\ Macrotask
    /\ readyState # CLOSED
    /\ events' = events + 1
    /\ closing' = ClosingNow
    /\ IF sessionPromise # 0
       THEN /\ promise' = PromiseAfterThen(promise, sessionPromise, StopCloseReaction)
            /\ microtasks' = MicrotasksAfterThen(promise, microtasks, sessionPromise,
                                                 StopCloseReaction)
       ELSE UNCHANGED <<promise, microtasks>>
    /\ UNCHANGED <<variant, sessionPromise, streamSid, callSid, isCleanedUp, readyState,
                   redisPending, transfers, aiLog, instruction, written, callUpdates,
                   mediaIn, aiIn, aiErrors, conns, handles, processUp, codec, redisKeys,
                   requests, agent, app>>

\* The catch block only logs.
RedisOnMalformed(kind) ==
    /\ variant = "redis"
    /\ Macrotask
    /\ readyState # CLOSED
    /\ events' = events + 1
    /\ UNCHANGED <<variant, sessionPromise, streamSid, callSid, isCleanedUp, readyState,
                   promise, microtasks, redisPending, transfers, aiLog, instruction,
                   written, callUpdates, mediaIn, aiIn, closing, aiErrors, conns,
                   handles, processUp, codec, redisKeys, requests, agent, app>>

\* if (callSid) { try { await redis.del(..) } catch(e) {} }: the key is
\* removed, or redis.del throws and the key stays.
DelOutcomes ==
    IF callSid # "null" THEN {redisKeys \ {callSid}, redisKeys} ELSE {redisKeys}

\* The socket 'close' handler up to its await sessionPromise; without a
\* session, all of it.
RedisOnSocketClose ==
    /\ variant = "redis"
    /\ Macrotask
    /\ events' = events + 1
    /\ readyState # CLOSED
    /\ readyState' = CLOSED
    /\ closing' = ClosingNow
    /\ IF sessionPromise # 0
       THEN /\ promise' = PromiseAfterThen(promise, sessionPromise, CloseHandlerReaction)
            /\ microtasks' = MicrotasksAfterThen(promise, microtasks, sessionPromise,
                                                 CloseHandlerReaction)
            /\ redisKeys' = redisKeys
       ELSE /\ UNCHANGED <<promise, microtasks>>
            /\ redisKeys' \in DelOutcomes
    /\ UNCHANGED <<variant, sessionPromise, streamSid, callSid, isCleanedUp,
                   redisPending, transfers, aiLog, instruction, written, callUpdates,
                   mediaIn, aiIn, aiErrors, conns, handles, processUp, codec, requests,
                   agent, app>>

\* This handler registers no 'error' listener: the socket only starts closing.
RedisOnSocketError ==
    /\ variant = "redis"
    /\ Macrotask
    /\ events' = events + 1
    /\ readyState = OPEN
    /\ readyState' = CLOSING
    /\ UNCHANGED <<variant, sessionPromise, streamSid, callSid, isCleanedUp, promise,
                   microtasks, redisPending, transfers, aiLog, instruction, written,
                   callUpdates, mediaIn, aiIn, closing, aiErrors, conns, handles,
                   processUp, codec, redisKeys, requests, agent, app>>

HUMAN_OPERATOR_NUMBER == "operator"

\* targetNumber of the toolCall branch.
TargetNumber(extension) ==
    IF extension # "" /\ Len(extension) > 6 THEN extension ELSE HUMAN_OPERATOR_NUMBER

\* Neither send is guarded here.
RedisOnMessageWrites(msg, seq) ==
    IF ~SocketWritable THEN <<>>
    ELSE IF msg.interrupted
    THEN <<[ClearEvent(seq) EXCEPT !.threw = msg.sendThrows, !.escaped = msg.sendThrows]>>
    ELSE IF msg.audio
    THEN <<[MediaEvent(seq) EXCEPT !.threw = msg.sendThrows, !.escaped = msg.sendThrows]>>
    ELSE <<>>

\* callbacks.onmessage up to its await client.calls(callSid).update(..).
RedisOnAiMessage(p, msg) ==
    /\ variant = "redis"
    /\ Macrotask
    /\ promise[p].state = "resolved"
    /\ Len(aiIn) < MaxAiMsgs
    /\ events' = events + 1
    /\ aiIn' = Append(aiIn, AiArrival(p, msg))
    /\ written' = written \o RedisOnMessageWrites(msg, Len(aiIn) + 1)
    /\ IF SocketWritable /\ ~msg.interrupted /\ ~(msg.audio /\ msg.sendThrows)
          /\ msg.tool = "transferCall"
       THEN LET u == [callSid |-> callSid, target |-> TargetNumber(msg.extension),
                      seq |-> Len(aiIn) + 1]
            IN  /\ transfers' = Append(transfers, u)
                /\ callUpdates' = Append(callUpdates, u)
       ELSE UNCHANGED <<transfers, callUpdates>>
    /\ UNCHANGED <<variant, sessionPromise, streamSid, callSid, isCleanedUp, readyState,
                   promise, microtasks, redisPending, aiLog, instruction, mediaIn,
                   closing, aiErrors, conns, handles, processUp, codec, redisKeys,
                   requests, agent, app>>

\* A toolCall branch that closes the socket whether or not the update threw.
RedisUpdateSettlesClosing(i, ok) ==
    /\ variant = "redis"
    /\ Macrotask
    /\ events' = events + 1
    /\ i \in 1..Len(transfers)
    /\ transfers' = SubSeq(transfers, 1, i - 1) \o SubSeq(transfers, i + 1, Len(transfers))
    /\ readyState' = IF readyState = OPEN THEN CLOSING ELSE readyState
    /\ UNCHANGED <<variant, sessionPromise, streamSid, callSid, isCleanedUp, promise,
                   microtasks, redisPending, aiLog, instruction, written, callUpdates,
                   mediaIn, aiIn, closing, aiErrors, conns, handles, processUp, codec,
                   redisKeys, requests, agent, app>>

\* The rest of the toolCall branch: connection.socket.close() when the update
\* succeeded, a log line when it threw.
RedisUpdateSettles(i, ok) ==
    /\ variant = "redis"
    /\ Macrotask
    /\ events' = events + 1
    /\ i \in 1..Len(transfers)
    /\ transfers' = SubSeq(transfers, 1, i - 1) \o SubSeq(transfers, i + 1, Len(transfers))
    /\ readyState' = IF ok /\ readyState = OPEN THEN CLOSING ELSE readyState
    /\ UNCHANGED <<variant, sessionPromise, streamSid, callSid, isCleanedUp, promise,
                   microtasks, redisPending, aiLog, instruction, written, callUpdates,
                   mediaIn, aiIn, closing, aiErrors, conns, handles, processUp, codec,
                   redisKeys, requests, agent, app>>

RedisRunMicrotask ==
    /\ variant = "redis"
    /\ microtasks # <<>>
    /\ LET m == Head(microtasks)
       IN  /\ microtasks' = Tail(microtasks)
           /\ IF m.outcome = "resolved"
              THEN aiLog' = [aiLog EXCEPT ![m.p] =
                                Append(@, IF m.r.k = "send" THEN SendCall(m.r.f)
                                                            ELSE CloseCall)]
              ELSE UNCHANGED aiLog
           /\ IF m.r.k = "closeHandler"
              THEN redisKeys' \in DelOutcomes
              ELSE redisKeys' = redisKeys
    /\ UNCHANGED <<variant, sessionPromise, streamSid, callSid, isCleanedUp, readyState,
                   promise, redisPending, transfers, instruction, written, callUpdates,
                   mediaIn, aiIn, closing, aiErrors, events, conns, handles, processUp,
                   codec, requests, agent, app>>

(***************************************************************************)
(* POST /make-call (lines 473-499).                                        *)
(***************************************************************************)
\* req.body.to: missing, or a phone number.
Recipients == {"", "+9779800000000"}

CallSids == {"CA1", "CA2"}

NewRequest(to) ==
    [to |-> to, stage |-> "create", sid |-> "none", status |-> 0, stored |-> "none"]

\* Call sids the provider has already given out.
SeenSids ==
    {callSid} \cup {redisPending[i] : i \in DOMAIN redisPending}
        \cup {instruction[p].lookup.key : p \in PromiseIds}
        \cup {requests[i].sid : i \in DOMAIN requests}

\* The handler up to its await client.calls.create; without 'to', all of it.
MakeCall(to) ==
    /\ variant = "redis"
    /\ Macrotask
    /\ Len(requests) < MaxRequests
    /\ events' = events + 1
    /\ requests' = Append(requests,
                          IF to = ""
                          THEN [NewRequest(to) EXCEPT !.stage = "done", !.status = 400]
                          ELSE NewRequest(to))
    /\ UNCHANGED <<variant, sessionPromise, streamSid, callSid, isCleanedUp, readyState,
                   promise, microtasks, redisPending, transfers, aiLog, instruction,
                   written, callUpdates, mediaIn, aiIn, closing, aiErrors, conns,
                   handles, processUp, codec, redisKeys, agent, app>>

\* client.calls.create settles: on success redis.set is issued, on failure
\* the outer catch replies 500.
CreateSettles(i, ok, sid) ==
    /\ variant = "redis"
    /\ Macrotask
    /\ i \in DOMAIN requests
    /\ requests[i].stage = "create"
    /\ sid \notin SeenSids
    /\ events' = events + 1
    /\ requests' = IF ok
                   THEN [requests EXCEPT ![i].stage = "set", ![i].sid = sid]
                   ELSE [requests EXCEPT ![i].stage = "done", ![i].status = 500]
    /\ UNCHANGED <<variant, sessionPromise, streamSid, callSid, isCleanedUp, readyState,
                   promise, microtasks, redisPending, transfers, aiLog, instruction,
                   written, callUpdates, mediaIn, aiIn, closing, aiErrors, conns,
                   handles, processUp, codec, redisKeys, agent, app>>

\* redis.set settles: the key is written, or the set throws and the text goes
\* to global.mockCache; either way the reply is { success: true, callSid }.
SetSettles(i, ok) ==
    /\ variant = "redis"
    /\ Macrotask
    /\ i \in DOMAIN requests
    /\ requests[i].stage = "set"
    /\ events' = events + 1
    /\ redisKeys' = IF ok THEN redisKeys \cup {requests[i].sid} ELSE redisKeys
    /\ requests' = [requests EXCEPT ![i].stage = "done", ![i].status = 200,
                                    ![i].stored = IF ok THEN "redis" ELSE "mockCache"]
    /\ UNCHANGED <<variant, sessionPromise, streamSid, callSid, isCleanedUp, readyState,
                   promise, microtasks, redisPending, transfers, aiLog, instruction,
                   written, callUpdates, mediaIn, aiIn, closing, aiErrors, conns,
                   handles, processUp, codec, agent, app>>

NextMakeCall ==
    \/ \E to \in Recipients : MakeCall(to)
    \/ \E i \in 1..MaxRequests, ok \in BOOLEAN, sid \in CallSids : CreateSettles(i, ok, sid)
    \/ \E i \in 1..MaxRequests, ok \in BOOLEAN : SetSettles(i, ok)

NextRedis ==
    \/ \E st \in StartMsgs : RedisOnStart(st)
    \/ \E reply \in RedisReplies, mock \in MockCaches : RedisGetSettles(reply, mock)
    \/ \E payload \in Payloads : RedisOnMedia(payload)
    \/ RedisOnStop
    \/ \E kind \in MalformedKinds : RedisOnMalformed(kind)
    \/ RedisOnSocketClose
    \/ RedisOnSocketError
    \/ \E p \in PromiseIds, msg \in AiMsgs : RedisOnAiMessage(p, msg)
    \/ \E i \in 1..MaxAiMsgs, ok \in BOOLEAN : RedisUpdateSettles(i, ok)
    \/ RedisRunMicrotask

NextNoiseGate ==
    \/ \E st \in StartMsgs : OnStart(st)
    \/ \E payload \in Payloads : OnMedia(payload)
    \/ OnStop
    \/ \E kind \in MalformedKinds : OnMalformed(kind)
    \/ OnSocketClose
    \/ OnSocketError
    \/ \E p \in PromiseIds, msg \in AiMsgs : OnAiMessage(p, msg)
    \/ RunMicrotask

Next ==
    \/ \E p \in PromiseIds : ConnectResolves(p)
    \/ \E p \in PromiseIds : ConnectRejects(p)
    \/ \E p \in PromiseIds : OnAiError(p)
    \/ NextNoiseGate
    \/ NextRedis

Spec == Init /\ [][Next]_vars

(***************************************************************************)
(* Two concurrent connections, each served by its own invocation of the    *)
(* noise-gate handler (lines 164-304).  A promise's reactions run right    *)
(* after it settles, before the next event, so a settlement and its        *)
(* reactions are one step here.                                            *)
(***************************************************************************)
callVars == <<variant, sessionPromise, streamSid, callSid, isCleanedUp, readyState,
              promise, microtasks, redisPending, transfers, aiLog, instruction,
              written, callUpdates, mediaIn, aiIn, closing, aiErrors, events>>

NextHandle == Cardinality({h \in PromiseIds : handles[h].state # "none"}) + 1

\* cleanupSession() of connection c, on the tables cn and hs.
cleanupSessionOf(cn, hs, c) ==
    IF cn[c].isCleanedUp
    THEN [conns |-> cn, handles |-> hs]
    ELSE LET h == cn[c].sessionPromise
             flagged == [cn EXCEPT ![c].isCleanedUp = TRUE]
         IN  IF h = 0 \/ hs[h].state = "rejected"
             THEN [conns |-> flagged, handles |-> hs]
             ELSE IF hs[h].state = "pending"
             THEN [conns |-> flagged,
                   handles |-> [hs EXCEPT ![h].reactions =
                                   Append(@, [k |-> "cleanup", c |-> c])]]
             ELSE [conns |-> flagged,
                   handles |-> [hs EXCEPT ![h].closed = TRUE, ![h].users = @ \cup {c}]]

TwoStart(c, st) ==
    /\ processUp
    /\ NextHandle <= MaxStarts
    /\ conns' = [conns EXCEPT ![c].streamSid = st.streamSid,
                              ![c].callSid = st.callSid,
                              ![c].sessionPromise = NextHandle]
    /\ handles' = [handles EXCEPT ![NextHandle] =
                      [NoHandle EXCEPT !.owner = c, !.state = "pending"]]
    /\ UNCHANGED processUp
    /\ UNCHANGED callVars
    /\ UNCHANGED <<codec, storeVars, dashboardVars>>

TwoMedia(c, payload) ==
    /\ processUp
    /\ conns[c].sessionPromise # 0
    /\ PassesNoiseGate(processTwilioAudio(payload))
    /\ LET h == conns[c].sessionPromise
       IN  /\ handles[h].sent + Len(handles[h].reactions) < MaxMedia
           /\ CASE handles[h].state = "pending" ->
                       /\ handles' = [handles EXCEPT ![h].reactions =
                                         Append(@, [k |-> "send", c |-> c])]
                       /\ UNCHANGED conns
                [] handles[h].state = "resolved" ->
                       /\ handles' = [handles EXCEPT ![h].sent = @ + 1,
                                                     ![h].users = @ \cup {c}]
                       /\ UNCHANGED conns
                [] handles[h].state = "rejected" ->
                       LET after == cleanupSessionOf(conns, handles, c)
                       IN  conns' = after.conns /\ handles' = after.handles
    /\ UNCHANGED processUp
    /\ UNCHANGED callVars
    /\ UNCHANGED <<codec, storeVars, dashboardVars>>

\* A 'stop' message, a frame the try block throws on, a socket 'close' or a
\* socket 'error' of connection c: each calls cleanupSession().
TwoCleanup(c) ==
    /\ processUp
    /\ LET after == cleanupSessionOf(conns, handles, c)
       IN  conns' = after.conns /\ handles' = after.handles
    /\ UNCHANGED processUp
    /\ UNCHANGED callVars
    /\ UNCHANGED <<codec, storeVars, dashboardVars>>

SendsOf(h) == {i \in DOMAIN handles[h].reactions : handles[h].reactions[i].k = "send"}

ReactingConns(h) == {handles[h].reactions[i].c : i \in DOMAIN handles[h].reactions}

TwoConnectResolves(h) ==
    /\ processUp
    /\ handles[h].state = "pending"
    /\ handles' = [handles EXCEPT
                      ![h].state = "resolved",
                      ![h].reactions = <<>>,
                      ![h].sent = @ + Cardinality(SendsOf(h)),
                      ![h].closed = SendsOf(h) # DOMAIN handles[h].reactions,
                      ![h].users = @ \cup ReactingConns(h)]
    /\ UNCHANGED <<conns, processUp>>
    /\ UNCHANGED callVars
    /\ UNCHANGED <<codec, storeVars, dashboardVars>>

\* The promise rejects.  A frame's .then(..).catch(..) runs cleanupSession; a
\* suspended cleanupSession catches the rejection and logs; with no reaction at
\* all the rejection is unhandled, which ends the process or not, as the
\* runtime is set up.
TwoConnectRejects(h) ==
    /\ processUp
    /\ handles[h].state = "pending"
    /\ LET settled == [handles EXCEPT ![h].state = "rejected", ![h].reactions = <<>>]
           after == cleanupSessionOf(conns, settled, handles[h].owner)
       IN  IF SendsOf(h) # {}
           THEN conns' = after.conns /\ handles' = after.handles /\ UNCHANGED processUp
           ELSE /\ conns' = conns
                /\ handles' = settled
                /\ IF handles[h].reactions = <<>>
                   THEN processUp' \in BOOLEAN
                   ELSE UNCHANGED processUp
    /\ UNCHANGED callVars
    /\ UNCHANGED <<codec, storeVars, dashboardVars>>

TwoNext ==
    \/ \E c \in Conns, st \in StartMsgs : TwoStart(c, st)
    \/ \E c \in Conns, payload \in Payloads : TwoMedia(c, payload)
    \/ \E c \in Conns : TwoCleanup(c)
    \/ \E h \in PromiseIds : TwoConnectResolves(h)
    \/ \E h \in PromiseIds : TwoConnectRejects(h)

TwoInit == Init /\ variant = "noiseGate"

SpecTwo == TwoInit /\ [][TwoNext]_vars

(***************************************************************************)
(* The codec functions of lines 67-142, each applied once to an input      *)
(* drawn from its domain (CodecSpec).                                      *)
(***************************************************************************)
MaxPcmLen == 6

Bytes == 0..255

Int16 == (-32768)..32767

\* Samples that make the averages negative, odd and extreme.
PcmSamples == {-32768, -3, 0, 2, 32767}

PcmBuffers == UNION {[1..n -> PcmSamples] : n \in 0..MaxPcmLen}

\* Silence, a quiet sample and full scale of either sign.
RmsSamples == {-32767, 0, 3, 32767}

RmsFrames == UNION {[1..n -> RmsSamples] : n \in 0..MaxPcmLen}

relayVars == <<callVars, conns, handles, processUp, storeVars, dashboardVars>>

Applied(fn, arg, res) == [fn |-> fn, arg |-> arg, res |-> res]

DecodeByte ==
    /\ codec = CodecIdle
    /\ \E b \in Bytes :
          codec' = Applied("muLawToLinear", <<b>>, <<muLawToLinear(b)>>)
    /\ UNCHANGED relayVars

EncodeSample ==
    /\ codec = CodecIdle
    /\ \E x \in Int16 :
          codec' = Applied("linearToMuLaw", <<x>>, <<linearToMuLaw(x)>>)
    /\ UNCHANGED relayVars

\* mulawOutput[i] = linearToMuLaw(muLawToLinear(b)): the encoder's number as
\* the Uint8Array element keeps it.
RoundTrip ==
    /\ codec = CodecIdle
    /\ \E b \in Bytes :
          codec' = Applied("roundTrip", <<b>>,
                           <<ToUint8(linearToMuLaw(muLawToLinear(b)))>>)
    /\ UNCHANGED relayVars

Upsample ==
    /\ codec = CodecIdle
    /\ \E input \in PcmBuffers :
          codec' = Applied("upsampleTo16k", input, upsampleTo16k(input))
    /\ UNCHANGED relayVars

Downsample ==
    /\ codec = CodecIdle
    /\ \E input \in PcmBuffers :
          codec' = Applied("downsampleTo8k", input, downsampleTo8k(input))
    /\ UNCHANGED relayVars

UpsampleThenDownsample ==
    /\ codec = CodecIdle
    /\ \E input \in PcmBuffers :
          codec' = Applied("upThenDown", input,
                           downsampleTo8k(upsampleTo16k(input)))
    /\ UNCHANGED relayVars

MeasureRMS ==
    /\ codec = CodecIdle
    /\ \E pcm \in RmsFrames :
          codec' = Applied("calculateRMS", pcm, <<calculateRMS(pcm)>>)
    /\ UNCHANGED relayVars

CodecNext ==
    \/ DecodeByte
    \/ MeasureRMS
    \/ EncodeSample
    \/ RoundTrip
    \/ Upsample
    \/ Downsample
    \/ UpsampleThenDownsample

(***************************************************************************)
(* The Redis-backed handler together with POST /make-call (StoreSpec).     *)
(***************************************************************************)
StoreNext ==
    \/ NextMakeCall
    \/ \E p \in PromiseIds : ConnectResolves(p)
    \/ \E p \in PromiseIds : ConnectRejects(p)
    \/ \E p \in PromiseIds : OnAiError(p)
    \/ NextRedis

StoreInit == Init /\ variant = "redis"

StoreSpec == StoreInit /\ [][StoreNext]_vars

CodecInit == Init /\ variant = "noiseGate"

CodecSpec == CodecInit /\ [][CodecNext]_vars

(***************************************************************************)
(* The dashboard agent: the AgentInterface component of src/unnamed/       *)
(* part_003 (disconnect closes the session) and of part_004 (AgentSpec).   *)
(***************************************************************************)
AgentParts == {"part_003", "part_004"}

\* useState / useRef initial values, and what the model records of the run.
NewAgent(part) ==
    [part |-> part,
     callState |-> "IDLE",
     connectionState |-> "DISCONNECTED",
     closureCallState |-> "IDLE",   \* callState as the session callbacks captured it
     mic |-> "idle",                \* getUserMedia: idle | pending | done
     audioOpen |-> FALSE,           \* the AudioContext refs hold open contexts
     sessionRef |-> FALSE,          \* sessionRef.current is a promise (not null)
     session |-> "none",            \* the promise of ai.live.connect
     reactions |-> <<>>,            \* continuations waiting on that promise
     microtasks |-> <<>>,           \* runnable continuations
     cleanups |-> <<>>,             \* disconnects suspended at await cleanupAudio()
     ws |-> "none",                 \* the session's socket: none | open | closing | closed
     timers |-> 0,                  \* pending setTimeout(disconnect, 4000)
     calls |-> 0,
     closeCalls |-> 0,              \* history: calls of session.close()
     disconnects |-> 0,             \* history: invocations of disconnect
     hangUps |-> 0,
     toolIn |-> <<>>,               \* history: functionCalls of the toolCall messages
     toolOut |-> <<>>]              \* history: functionResponses of each sendToolResponse

FunctionCall(id, name) == [id |-> id, name |-> name]

\* message.toolCall.functionCalls of the messages the backend sends.
FunctionCallLists ==
    {<<FunctionCall("fc1", "transferCall")>>,
     <<FunctionCall("fc1", "lookupOrder")>>,
     <<FunctionCall("fc1", "lookupOrder"), FunctionCall("fc2", "transferCall")>>,
     <<FunctionCall("fc1", "transferCall"), FunctionCall("fc2", "transferCall")>>}

IsTransfer(fc) == fc.name = "transferCall"

\* A map that answers the transferCall entries only.
ToolResponsesTransferOnly(functionCalls) ==
    LET calls == SelectSeq(functionCalls, IsTransfer)
    IN  [j \in DOMAIN calls |-> [id |-> calls[j].id, name |-> calls[j].name, result |-> "ok"]]

\* message.toolCall.functionCalls.map(fc => ..).
ToolResponses(functionCalls) ==
    [j \in DOMAIN functionCalls |->
        [id |-> functionCalls[j].id, name |-> functionCalls[j].name,
         result |-> IF IsTransfer(functionCalls[j]) THEN "ok" ELSE "Unknown"]]

\* `await` of, or .then on, the session promise.
AwaitSession(a, r) ==
    IF a.session = "pending"
    THEN [a EXCEPT !.reactions = Append(@, r)]
    ELSE [a EXCEPT !.microtasks = Append(@, [r |-> r, outcome |-> a.session])]

AfterCleanup(showSummary) == [k |-> "afterCleanup", showSummary |-> showSummary]

\* await cleanupAudio(): with open AudioContexts the disconnect waits for
\* their close(); without, it resumes as a microtask.
AwaitCleanupAudio(a, showSummary) ==
    IF a.audioOpen
    THEN [a EXCEPT !.cleanups = Append(@, AfterCleanup(showSummary))]
    ELSE [a EXCEPT !.microtasks =
                       Append(@, [r |-> AfterCleanup(showSummary), outcome |-> "resolved"])]

\* disconnect of part_003 after cleanupAudio: setConnectionState, setCallState.
Disconnected(a, showSummary) ==
    [a EXCEPT !.connectionState = "DISCONNECTED",
              !.callState = IF showSummary THEN "SUMMARY" ELSE "IDLE"]

\* disconnect up to its first await (part_003); the whole of it (part_004,
\* which neither takes an argument nor closes the session).
disconnect(a, showSummary) ==
    LET b == [a EXCEPT !.disconnects = @ + 1]
    IN  IF a.part = "part_004"
        THEN [b EXCEPT !.audioOpen = FALSE, !.connectionState = "DISCONNECTED",
                       !.callState = "IDLE"]
        ELSE IF b.sessionRef
        THEN AwaitSession(b, [k |-> "disconnect", showSummary |-> showSummary])
        ELSE AwaitCleanupAudio(b, showSummary)

dashboardRest == <<callVars, conns, handles, processUp, storeVars, codec>>

AgentMacrotask == agent.part # "none" /\ agent.microtasks = <<>>

AgentMount(part) ==
    /\ agent = Unmounted
    /\ agent' = NewAgent(part)
    /\ UNCHANGED <<app, dashboardRest>>

\* Nothing of an earlier call is pending any more.
AgentAtRest ==
    /\ agent.mic # "pending"
    /\ agent.session # "pending"
    /\ agent.ws \in {"none", "closed"}
    /\ agent.cleanups = <<>>
    /\ agent.timers = 0

\* The next simulated call; the model starts one only when the previous call
\* has left nothing pending, and counts close() and disconnect per call.
StartSimulatedCall ==
    /\ AgentMacrotask
    /\ agent.callState = "IDLE"
    /\ agent.calls < MaxCalls
    /\ AgentAtRest
    /\ agent' = [agent EXCEPT !.callState = "RINGING", !.calls = @ + 1,
                              !.closeCalls = 0, !.disconnects = 0, !.hangUps = 0,
                              !.ws = "none", !.session = "none", !.mic = "idle"]
    /\ UNCHANGED <<app, dashboardRest>>

DeclineCall ==
    /\ AgentMacrotask
    /\ agent.callState = "RINGING"
    /\ agent' = [agent EXCEPT !.callState = "IDLE"]
    /\ UNCHANGED <<app, dashboardRest>>

\* answerCall: setCallState('ACTIVE'), then connectToGemini up to its await
\* getUserMedia.
AnswerCall ==
    /\ AgentMacrotask
    /\ agent.callState = "RINGING"
    /\ agent' = IF agent.connectionState \in {"CONNECTED", "CONNECTING"}
                THEN [agent EXCEPT !.callState = "ACTIVE"]
                ELSE [agent EXCEPT !.callState = "ACTIVE",
                                   !.connectionState = "CONNECTING",
                                   !.closureCallState = agent.callState,
                                   !.audioOpen = TRUE,
                                   !.mic = "pending"]
    /\ UNCHANGED <<app, dashboardRest>>

\* getUserMedia settles: ai.live.connect is called and sessionRef.current set;
\* part_003 also registers sessionPromise.catch. A refused microphone ends in
\* ERROR / IDLE.
MicSettles(ok) ==
    /\ AgentMacrotask
    /\ agent.mic = "pending"
    /\ agent' = IF ok
                THEN [agent EXCEPT !.mic = "done", !.session = "pending",
                                   !.sessionRef = TRUE,
                                   !.reactions = IF agent.part = "part_003"
                                                 THEN <<[k |-> "catch"]>> ELSE <<>>]
                ELSE [agent EXCEPT !.mic = "done", !.connectionState = "ERROR",
                                   !.callState = "IDLE", !.audioOpen = FALSE]
    /\ UNCHANGED <<app, dashboardRest>>

Settled(a, outcome) ==
    [a EXCEPT !.session = outcome,
              !.reactions = <<>>,
              !.microtasks = @ \o [i \in DOMAIN a.reactions |->
                                      [r |-> a.reactions[i], outcome |-> outcome]]]

\* The socket opens: callbacks.onopen, then the promise resolves.
AgentConnectResolves ==
    /\ AgentMacrotask
    /\ agent.session = "pending"
    /\ agent' = [Settled(agent, "resolved") EXCEPT !.connectionState = "CONNECTED",
                                                   !.ws = "open"]
    /\ UNCHANGED <<app, dashboardRest>>

AgentConnectRejects ==
    /\ AgentMacrotask
    /\ agent.session = "pending"
    /\ agent' = Settled(agent, "rejected")
    /\ UNCHANGED <<app, dashboardRest>>

\* The continuation at the head of the microtask queue.
Continued(a, m) ==
    CASE m.r.k = "catch" ->
           IF m.outcome = "rejected"
           THEN [a EXCEPT !.connectionState = "ERROR", !.callState = "IDLE",
                          !.audioOpen = FALSE]
           ELSE a
      [] m.r.k = "disconnect" ->
           LET closed == IF m.outcome = "resolved"
                         THEN [a EXCEPT !.closeCalls = @ + 1,
                                        !.ws = IF @ = "open" THEN "closing" ELSE @]
                         ELSE a
           IN  AwaitCleanupAudio([closed EXCEPT !.sessionRef = FALSE], m.r.showSummary)
      [] m.r.k = "toolResponse" ->
           IF m.outcome = "resolved"
           THEN [a EXCEPT !.toolOut = Append(@, m.r.functionResponses)]
           ELSE a
      [] m.r.k = "afterCleanup" -> Disconnected(a, m.r.showSummary)

AgentRunMicrotask ==
    /\ agent.part # "none"
    /\ agent.microtasks # <<>>
    /\ agent' = Continued([agent EXCEPT !.microtasks = Tail(@)], Head(agent.microtasks))
    /\ UNCHANGED <<app, dashboardRest>>

\* The AudioContexts have closed: a disconnect suspended at await
\* cleanupAudio() resumes.
AgentCleanupDone(i) ==
    /\ AgentMacrotask
    /\ i \in DOMAIN agent.cleanups
    /\ agent' = Disconnected(
                    [agent EXCEPT !.audioOpen = FALSE,
                                  !.cleanups = SubSeq(@, 1, i - 1) \o SubSeq(@, i + 1, Len(@))],
                    agent.cleanups[i].showSummary)
    /\ UNCHANGED <<app, dashboardRest>>

\* The hang-up button, shown while callState is ACTIVE or TRANSFERRING.
HangUp ==
    /\ AgentMacrotask
    /\ agent.callState \in {"ACTIVE", "TRANSFERRING"}
    /\ agent.hangUps < MaxHangUps
    /\ agent' = disconnect([agent EXCEPT !.hangUps = @ + 1], TRUE)
    /\ UNCHANGED <<app, dashboardRest>>

\* setTimeout(() => { disconnect(true); }, 4000) fires.
TransferTimerFires ==
    /\ AgentMacrotask
    /\ agent.timers > 0
    /\ agent' = disconnect([agent EXCEPT !.timers = @ - 1], TRUE)
    /\ UNCHANGED <<app, dashboardRest>>

\* callbacks.onmessage with a toolCall.
AgentOnMessage(functionCalls) ==
    /\ AgentMacrotask
    /\ agent.ws = "open"
    /\ Len(agent.toolIn) < MaxToolMsgs
    /\ LET transferCalls == Len(SelectSeq(functionCalls, IsTransfer))
           a == [agent EXCEPT !.toolIn = Append(@, functionCalls),
                              !.callState = IF transferCalls > 0 THEN "TRANSFERRING" ELSE @,
                              !.timers = @ + transferCalls]
       IN  agent' = AwaitSession(a, [k |-> "toolResponse",
                                     functionResponses |-> ToolResponses(functionCalls)])
    /\ UNCHANGED <<app, dashboardRest>>

\* callbacks.onclose: the socket has closed, after session.close() or from
\* the backend's side.
AgentOnClose ==
    /\ AgentMacrotask
    /\ agent.ws \in {"open", "closing"}
    /\ LET a == [agent EXCEPT !.ws = "closed"]
       IN  agent' =
             IF agent.part = "part_004"
             THEN [a EXCEPT !.connectionState = "DISCONNECTED", !.callState = "IDLE",
                            !.audioOpen = FALSE]
             ELSE IF a.connectionState # "DISCONNECTED"
                     /\ a.closureCallState # "TRANSFERRING"
             THEN [disconnect(a, TRUE) EXCEPT !.connectionState = "DISCONNECTED"]
             ELSE [a EXCEPT !.connectionState = "DISCONNECTED"]
    /\ UNCHANGED <<app, dashboardRest>>

\* callbacks.onerror.
AgentOnError ==
    /\ AgentMacrotask
    /\ agent.ws = "open"
    /\ agent.connectionState = "CONNECTED"
    /\ agent' = [agent EXCEPT !.connectionState = "ERROR", !.audioOpen = FALSE]
    /\ UNCHANGED <<app, dashboardRest>>

\* closeSummary, as far as the call state goes.
CloseSummary ==
    /\ AgentMacrotask
    /\ agent.callState = "SUMMARY"
    /\ agent' = [agent EXCEPT !.callState = "IDLE"]
    /\ UNCHANGED <<app, dashboardRest>>

\* At most this many disconnects are suspended at once: the hang-ups, one per
\* transfer timer, and the one of onclose.
MaxCleanups == MaxHangUps + 2 * MaxToolMsgs + 1

AgentNext ==
    \/ \E part \in AgentParts : AgentMount(part)
    \/ StartSimulatedCall
    \/ DeclineCall
    \/ AnswerCall
    \/ \E ok \in BOOLEAN : MicSettles(ok)
    \/ AgentConnectResolves
    \/ AgentConnectRejects
    \/ AgentRunMicrotask
    \/ \E i \in 1..MaxCleanups : AgentCleanupDone(i)
    \/ HangUp
    \/ TransferTimerFires
    \/ \E functionCalls \in FunctionCallLists : AgentOnMessage(functionCalls)
    \/ AgentOnClose
    \/ AgentOnError
    \/ CloseSummary

AgentInit == Init /\ variant = "noiseGate"

AgentSpec == AgentInit /\ [][AgentNext]_vars

(***************************************************************************)
(* The customer list of src/App.tsx and its persistence in src/utils/db.ts *)
(* (AppSpec).                                                              *)
(***************************************************************************)
Customer(id, name, history, lastInteraction) ==
    [id |-> id, name |-> name, history |-> history, lastInteraction |-> lastInteraction]

\* INITIAL_DATA of db.ts: the fields handleCallComplete reads or writes, and
\* the name standing for the ones it copies.
INITIAL_DATA ==
    <<Customer("C-001", "Hari Bahadur", <<"INT-MOCK-1">>, "2 days ago"),
      Customer("C-002", "Sita Devi", <<>>, "1 month ago"),
      Customer("C-003", "Tech Solutions Pvt Ltd", <<>>, "Yesterday")>>

\* What localStorage may hold for DB_KEY when the page loads: nothing, or a
\* list an earlier visit saved.
StoredLists ==
    {<<>>,
     <<INITIAL_DATA>>,
     <<<<>>>>,
     <<<<Customer("C-002", "Sita Devi", <<"INT-0">>, "Just now"),
         Customer("C-001", "Hari Bahadur", <<"INT-MOCK-1">>, "2 days ago")>>>>}

\* The InteractionRecords a finished call hands over (by their id).
Records == {"INT-1", "INT-2"}

\* newCustomerProfile when the caller passes none.
Undefined == Customer("undefined", "", <<>>, "")

\* The profile the agent builds for an unknown caller.
TempProfile == Customer("TEMP", "Guest Caller", <<>>, "Never")

Profiles == {Undefined, TempProfile}

\* `C-${Date.now().toString().slice(-4)}` of the CRM panel's add: the four
\* digits repeat every ten seconds, so two added customers can share an id.
AddedIds == {"C-4321"}

CustomerIds == {"C-001", "C-002", "C-404", "TEMP"} \cup AddedIds

\* `C-${Date.now()}`.
NewId(now) == IF now = 1 THEN "C-1700000000001"
              ELSE IF now = 2 THEN "C-1700000000002"
              ELSE IF now = 3 THEN "C-1700000000003"
              ELSE IF now = 4 THEN "C-1700000000004"
              ELSE "C-1700000000005"

\* customers.map(c => c.id === customerId ? {...c, history: [...c.history, record], ..} : c)
AppendRecord(customers, customerId, record) ==
    [i \in DOMAIN customers |->
        IF customers[i].id = customerId
        THEN [customers[i] EXCEPT !.history = Append(@, record),
                                  !.lastInteraction = "Just now"]
        ELSE customers[i]]

\* A handler that puts the new customer at the end of the list and the new
\* record at the front of the history.
handleCallCompleteReversed(customers, customerId, record, newCustomerProfile, now) ==
    IF customerId = "TEMP" /\ newCustomerProfile # Undefined
    THEN Append(customers,
                [newCustomerProfile EXCEPT !.id = NewId(now), !.history = <<record>>,
                                           !.lastInteraction = "Just now"])
    ELSE [i \in DOMAIN customers |->
            IF customers[i].id = customerId
            THEN [customers[i] EXCEPT !.history = <<record>> \o @,
                                      !.lastInteraction = "Just now"]
            ELSE customers[i]]

\* The list handleCallComplete passes to handleCustomerUpdate.
handleCallComplete(customers, customerId, record, newCustomerProfile, now) ==
    IF customerId = "TEMP" /\ newCustomerProfile # Undefined
    THEN <<[newCustomerProfile EXCEPT !.id = NewId(now), !.history = <<record>>,
                                      !.lastInteraction = "Just now"]>> \o customers
    ELSE AppendRecord(customers, customerId, record)

\* setCustomers(updatedCustomers); db.saveCustomers(updatedCustomers).
handleCustomerUpdate(a, updatedCustomers) ==
    [a EXCEPT !.customers = updatedCustomers,
              !.stored = <<updatedCustomers>>,
              !.saves = @ + 1]

appRest == <<callVars, conns, handles, processUp, storeVars, codec, agent>>

\* The mount effect: db.init() returns the stored list, or stores and returns
\* INITIAL_DATA when the key is absent.
AppMount(existing) ==
    /\ ~app.mounted
    /\ app' = [app EXCEPT !.mounted = TRUE,
                          !.stored = IF existing = <<>> THEN <<INITIAL_DATA>> ELSE existing,
                          !.customers = IF existing = <<>> THEN INITIAL_DATA ELSE existing[1]]
    /\ UNCHANGED appRest

\* onCallComplete of the agent panel. Date.now() is later than at the
\* previous completion: each one follows a click on the summary dialog.
HandleCallComplete(customerId, record, newCustomerProfile) ==
    /\ app.mounted
    /\ app.completed < MaxCompleted
    /\ LET now == app.clock + 1
           updatedCustomers ==
               handleCallComplete(app.customers, customerId, record,
                                  newCustomerProfile, now)
       IN  app' = [handleCustomerUpdate(app, updatedCustomers) EXCEPT
                      !.clock = now,
                      !.completed = @ + 1]
    /\ UNCHANGED appRest

\* The CRM panel's add: onUpdate([newCustomer, ...customers]).
AddCustomer(id) ==
    /\ app.mounted
    /\ app.edits < MaxEdits
    /\ app' = [handleCustomerUpdate(app,
                   <<Customer(id, "New Customer", <<>>, "Never")>> \o app.customers)
                EXCEPT !.edits = @ + 1]
    /\ UNCHANGED appRest

\* The CRM panel's delete: onUpdate(customers.filter(c => c.id !== selected.id)).
DeleteCustomer(i) ==
    /\ app.mounted
    /\ app.edits < MaxEdits
    /\ i \in DOMAIN app.customers
    /\ LET Keep(c) == c.id # app.customers[i].id
       IN  app' = [handleCustomerUpdate(app, SelectSeq(app.customers, Keep))
                   EXCEPT !.edits = @ + 1]
    /\ UNCHANGED appRest

\* handleResetDB, confirmed: db.reset stores INITIAL_DATA and returns it.
HandleResetDB ==
    /\ app.mounted
    /\ app.edits < MaxEdits
    /\ app' = [app EXCEPT !.customers = INITIAL_DATA, !.stored = <<INITIAL_DATA>>,
                          !.edits = @ + 1]
    /\ UNCHANGED appRest

\* The list is never longer than this: INITIAL_DATA, one customer per
\* completed call and one per edit.
MaxCustomers == 3 + MaxCompleted + MaxEdits

AppNext ==
    \/ \E existing \in StoredLists : AppMount(existing)
    \/ \E customerId \in CustomerIds, record \in Records, profile \in Profiles :
           HandleCallComplete(customerId, record, profile)
    \/ \E id \in AddedIds : AddCustomer(id)
    \/ \E i \in 1..MaxCustomers : DeleteCustomer(i)
    \/ HandleResetDB

AppInit == Init /\ variant = "noiseGate"

AppSpec == AppInit /\ [][AppNext]_vars

(***************************************************************************)
(* What the properties below read off the state.                           *)
(***************************************************************************)
Opened == {p \in PromiseIds : promise[p].state # "none"}

CloseCount(p) == Cardinality({i \in DOMAIN aiLog[p] : aiLog[p][i].op = "close"})

IsSend(c) == c.op = "send"

\* The frames passed to sendRealtimeInput on the session of promise p, in order.
SentFrames(p) ==
    LET sends == SelectSeq(aiLog[p], IsSend)
    IN  [i \in 1..Len(sends) |-> sends[i].f]

\* The same, together with the frames whose reaction is runnable or waits on p.
HeldFrames(p) ==
    {c.f : c \in {aiLog[p][i] : i \in DOMAIN aiLog[p]}}
        \cup {r.f : r \in {promise[p].reactions[i] : i \in DOMAIN promise[p].reactions}}
        \cup {m.r.f : m \in {microtasks[i] : i \in DOMAIN microtasks}}

FrameIds == [i \in 1..Len(mediaIn) |-> i]

\* Frame f arrived while sessionPromise was p and (in the noise-gate handler)
\* its RMS is above the threshold.
ForSession(p, f) ==
    /\ mediaIn[f].sp = p
    /\ variant = "noiseGate" => PassesNoiseGate(processTwilioAudio(mediaIn[f].payload))

Expected(p) ==
    LET Mine(f) == ForSession(p, f) IN SelectSeq(FrameIds, Mine)

EarlyExpected(p) ==
    LET Mine(f) == ForSession(p, f) /\ mediaIn[f].pending IN SelectSeq(FrameIds, Mine)

IsPrefix(a, b) == Len(a) <= Len(b) /\ SubSeq(b, 1, Len(a)) = a

Quiescent == microtasks = <<>>

\* C1: close() is never invoked a second time on an AI session handle, however
\* the 'stop' message and the socket's 'close' and 'error' events interleave
\* and repeat.
C1_CloseAtMostOnce == \A p \in PromiseIds : CloseCount(p) <= 1

\* C2: at most one AI session handle of the connection is open (its connect
\* resolved, close() not yet called on it) at any time.
OpenSessions == {p \in PromiseIds : promise[p].state = "resolved" /\ CloseCount(p) = 0}

C2_AtMostOneOpenSession == Cardinality(OpenSessions) <= 1

\* C3: the frames that pass the noise gate and arrive while the connect promise
\* is pending are all passed to sendRealtimeInput once the promise has
\* resolved, in the order of their arrival, none dropped and none overtaken.
C3_EarlyFramesDeliveredInOrder ==
    \A p \in PromiseIds :
        /\ IsPrefix(SentFrames(p), Expected(p))
        /\ promise[p].state = "pending" => SentFrames(p) = <<>>
        /\ (promise[p].state = "resolved" /\ Quiescent)
               => IsPrefix(EarlyExpected(p), SentFrames(p))

\* C3 witness: two frames queued on a pending promise were delivered, in order,
\* by the noise-gate handler.
C3_Witness ==
    \E p \in PromiseIds :
        /\ variant = "noiseGate"
        /\ promise[p].state = "resolved"
        /\ Quiescent
        /\ Len(EarlyExpected(p)) >= 2
        /\ SentFrames(p) = EarlyExpected(p)

\* C4: in the Redis-backed handler a media frame that arrives while the 'start'
\* branch awaits redis.get and sessionPromise is still unassigned is queued
\* for the AI session (and later forwarded), not dropped.
C4_FramesDuringLookupKept ==
    \A f \in DOMAIN mediaIn :
        (variant = "redis" /\ mediaIn[f].lookup /\ mediaIn[f].sp = 0)
            => \E p \in PromiseIds : f \in HeldFrames(p)

\* C5: once a 'stop', a socket close or a socket error has been handled,
\* sendRealtimeInput is not called any more.
C5_NoSendAfterClosing ==
    \A p \in PromiseIds :
        \A i \in DOMAIN aiLog[p] : aiLog[p][i].op = "send" => ~aiLog[p][i].closing

\* C6: every 'media' or 'clear' event written to the provider socket was
\* written while the socket was in the open state.
C6_WritesOnlyWhileOpen ==
    \A k \in DOMAIN written : written[k].rs = OPEN

WritesFor(i) == {k \in DOMAIN written : written[k].seq = i}

\* C6 witness: after something was written, a backend message with audio or an
\* interruption arrived while the socket was no longer open, and nothing was
\* written for it.
C6_Witness ==
    /\ written # <<>>
    /\ \E i \in DOMAIN aiIn :
           /\ aiIn[i].rs # OPEN
           /\ aiIn[i].msg.audio \/ aiIn[i].msg.interrupted
           /\ WritesFor(i) = {}

\* C7: for a backend message signalling Interrupted (while the provider socket
\* is open) exactly one event is written, a 'clear' carrying the streamSid of
\* the connection, and no audio of that message or of an earlier one is
\* written after a 'clear'.
C7_InterruptionClearsOnce ==
    /\ \A i \in DOMAIN aiIn :
           (aiIn[i].msg.interrupted /\ aiIn[i].rs = OPEN)
               => /\ Cardinality(WritesFor(i)) = 1
                  /\ \A k \in WritesFor(i) :
                         /\ written[k].event = "clear"
                         /\ written[k].streamSid = aiIn[i].sid
                         /\ written[k].streamSid \in {st.streamSid : st \in StartMsgs}
    /\ \A k, l \in DOMAIN written :
           (written[k].event = "clear" /\ l > k /\ written[l].event = "media")
               => written[l].seq > written[k].seq

\* C7 witness: an audio chunk was written, then a message carrying both
\* Interrupted and audio arrived, and the provider got the chunk and one 'clear'.
C7_Witness ==
    \E i, j \in DOMAIN aiIn :
        /\ i < j
        /\ aiIn[i].msg.audio /\ ~aiIn[i].msg.interrupted /\ aiIn[i].rs = OPEN
        /\ aiIn[j].msg.audio /\ aiIn[j].msg.interrupted /\ aiIn[j].rs = OPEN
        /\ Len(written) = 2
        /\ written[1].event = "media" /\ written[1].seq = i
        /\ written[2].event = "clear" /\ written[2].seq = j

\* C8: once cleanup has run (the flag is set, or a 'stop', socket close or
\* socket error was handled), no step opens a new AI session.
C8_ClosedIsTerminal ==
    [][(closing.begun \/ isCleanedUp) => Opened' = Opened]_vars

\* cleanupSession (or the Redis handler's 'close' listener) is suspended at its
\* await of a connect promise that has not settled.
CleanupWaiting ==
    \E p \in PromiseIds :
        \E i \in DOMAIN promise[p].reactions :
            promise[p].reactions[i].k \in {"cleanup", "closeHandler"}

\* C9: a session that was opened before a 'stop', socket close or socket error
\* was handled, and whose connect has resolved, has had close() invoked on it
\* once no promise reaction is left to run and no cleanup is still suspended.
C9_ClosedAfterCleanup ==
    variant = "noiseGate" =>
        \A p \in closing.after :
            (promise[p].state = "resolved" /\ Quiescent /\ ~CleanupWaiting)
                => CloseCount(p) >= 1

\* The event loop runs every runnable promise reaction.
FairSpec == Spec /\ WF_vars(RunMicrotask) /\ WF_vars(RedisRunMicrotask)

\* C10: cleanup never waits forever for the connect promise: whenever it is
\* suspended at its await it leaves it again, also if the open never settles.
C10_CleanupNeverHangs == CleanupWaiting ~> ~CleanupWaiting

\* Cleanup of the session of promise p has at least begun: close() was called
\* on it, or a cleanup is suspended at its await or about to resume.
CleanupBegunFor(p) ==
    \/ CloseCount(p) >= 1
    \/ \E i \in DOMAIN promise[p].reactions : promise[p].reactions[i].k # "send"
    \/ \E i \in DOMAIN microtasks : microtasks[i].p = p /\ microtasks[i].r.k # "send"

\* C11: once callbacks.onerror has fired for a session, the cleanup of that
\* session has begun (the error is fatal: the handle is closed, or about to be).
C11_BackendErrorIsFatal ==
    \A p \in aiErrors : CleanupBegunFor(p)

\* C12: when the connect promise has rejected, no frame queued on it was passed
\* to sendRealtimeInput, and (noise-gate handler) the cleanup flag is set once
\* the promise's reactions have run, whether or not any frame was queued.
C12_OpenFailureCleansUp ==
    \A p \in PromiseIds :
        (promise[p].state = "rejected" /\ Quiescent)
            => /\ SentFrames(p) = <<>>
               /\ variant = "noiseGate" => isCleanedUp

\* C13: handling a malformed frame tears nothing down: the cleanup flag, the
\* session promise and its pending reactions are as before, and nothing is
\* queued to close the session.
C13_MalformedFrameSkipped ==
    [][(\E kind \in MalformedKinds : OnMalformed(kind) \/ RedisOnMalformed(kind))
           => UNCHANGED <<isCleanedUp, sessionPromise, promise, microtasks>>]_vars

\* The call-control updates made for the backend message number i.
UpdatesFor(i) == {k \in DOMAIN callUpdates : callUpdates[k].seq = i}

\* C14: a call-control update made for a transferCall that names an extension
\* dials that extension ("101" gives "101"); the operator number is dialled
\* only when the tool call names none.
C14_TransferTargetIsExtension ==
    \A k \in DOMAIN callUpdates :
        LET ext == aiIn[callUpdates[k].seq].msg.extension
        IN  /\ ext # "" => callUpdates[k].target = ext
            /\ ext = "" => callUpdates[k].target = HUMAN_OPERATOR_NUMBER

\* The toolCall branch of message i is still suspended at its await.
UpdatePending(i) == \E k \in DOMAIN transfers : transfers[k].seq = i

\* C15: for every transferCall that reaches the tool branch (socket open, no
\* interruption in the same message) the call-control update is invoked
\* exactly once, and once the update has been answered the provider socket is
\* no longer open, so that nothing more is relayed.
C15_TransferOnceThenClosing ==
    \A i \in DOMAIN aiIn :
        (aiIn[i].msg.tool = "transferCall" /\ ~aiIn[i].msg.interrupted /\ aiIn[i].rs = OPEN)
            => /\ Cardinality(UpdatesFor(i)) = 1
               /\ ~UpdatePending(i) => readyState # OPEN

ToolCallReceived == \E i \in DOMAIN aiIn : aiIn[i].msg.tool # "none"

ToolResultSent ==
    \E p \in PromiseIds : \E k \in DOMAIN aiLog[p] : aiLog[p][k].op = "toolResponse"

\* C16: a ToolCall delivered to callbacks.onmessage is eventually answered by
\* a tool response sent on an AI session.
C16_ToolCallAnswered == ToolCallReceived ~> ToolResultSent

\* Connection c takes a step: one of its events is handled, or a promise it
\* owns settles.
ActsOn(c) ==
    \/ \E st \in StartMsgs : TwoStart(c, st)
    \/ \E payload \in Payloads : TwoMedia(c, payload)
    \/ TwoCleanup(c)
    \/ \E h \in PromiseIds :
           handles[h].owner = c /\ (TwoConnectResolves(h) \/ TwoConnectRejects(h))

OwnedBy(c) == [h \in PromiseIds |-> IF handles[h].owner = c THEN handles[h] ELSE NoHandle]

\* C17: a step of one connection (its failure and cleanup included) leaves
\* the variables and the AI handles of every other connection as they were and
\* leaves the other connections served; no AI handle is used by a connection
\* other than the one that opened it.
C17_SessionsIsolated ==
    /\ [][\A c \in Conns : ActsOn(c) =>
             \A d \in Conns \ {c} :
                 /\ conns'[d] = conns[d]
                 /\ OwnedBy(d)' = OwnedBy(d)
                 /\ conns[d].sessionPromise # 0 => processUp']_vars
    /\ [](\A h \in PromiseIds : handles[h].users \subseteq {handles[h].owner})

\* The frames waiting on the connect promise p.
PendingFrames(p) ==
    Cardinality({i \in DOMAIN promise[p].reactions : promise[p].reactions[i].k = "send"})

TearingDown == isCleanedUp \/ closing.begun \/ readyState # OPEN

\* C18: the frames waiting on a connect promise that has not settled stay
\* below a fixed bound (here MaxMedia, the number of frames the provider can
\* deliver at all); when the queue reaches it the session is being torn down.
C18_PendingFramesBounded ==
    \A p \in PromiseIds : PendingFrames(p) >= MaxMedia => TearingDown

\* C19: a media frame that arrives for a session (whose open has not failed)
\* is queued for or passed to sendRealtimeInput if and only if the RMS of its
\* decoded samples is strictly above NOISE_THRESHOLD; a frame at or below the
\* threshold is held nowhere.
C19_ForwardedIffAboveThreshold ==
    \A f \in DOMAIN mediaIn :
        LET p == mediaIn[f].sp
        IN  (p # 0 /\ promise[p].state # "rejected")
                => (f \in HeldFrames(p)
                       <=> PassesNoiseGate(processTwilioAudio(mediaIn[f].payload)))

\* The instruction given to the open of promise p.
Given(p) == [text |-> instruction[p].text, of |-> instruction[p].of]

\* A text for the looked-up call sid is in the instruction store: in Redis, or
\* in the fallback cache /make-call writes when Redis refuses the text.
Present(p) ==
    instruction[p].lookup.reply = "hit" \/ instruction[p].lookup.key \in instruction[p].lookup.mock

\* C20: the Redis-backed handler opens the AI session with the text stored for
\* the callSid of the 'start' when the store holds one and the lookup does not
\* fail, with the static default when the store holds none, and never with
\* anything but one of these two.
C20_InstructionFromStore ==
    \A p \in PromiseIds :
        (variant = "redis" /\ promise[p].state # "none") =>
            LET key == instruction[p].lookup.key
            IN  /\ Given(p) \in {StoredInstruction(key), DefaultInstruction}
                /\ ~Present(p) => Given(p) = DefaultInstruction
                /\ (Present(p) /\ instruction[p].lookup.reply # "error")
                       => Given(p) = StoredInstruction(key)

\* An event whose handler calls cleanupSession(): 'stop', a frame the try block
\* throws on, the socket's 'close' or 'error'.
CleanupInvoked ==
    \/ OnStop
    \/ OnSocketClose
    \/ OnSocketError
    \/ \E kind \in {"badJson", "startNoBody"} : OnMalformed(kind)

\* C21: (noise-gate handler) a cleanup invoked before any 'start' only sets
\* the flag: no close() is called and nothing is queued; a cleanup invoked
\* when the flag is already set changes nothing of the session.
C21_CleanupNoOp ==
    [][CleanupInvoked =>
          /\ isCleanedUp'
          /\ (sessionPromise = 0 \/ isCleanedUp)
                 => UNCHANGED <<sessionPromise, streamSid, callSid, promise, microtasks,
                                aiLog, written>>
          /\ isCleanedUp => UNCHANGED isCleanedUp]_vars

\* C21 witness: the connection was closed before any 'start', as the second
\* event or later; no session exists and no close() was called.
C21_Witness ==
    /\ variant = "noiseGate"
    /\ closing.begun
    /\ readyState = CLOSED
    /\ events >= 2
    /\ isCleanedUp
    /\ Opened = {}
    /\ \A p \in PromiseIds : aiLog[p] = <<>>

\* The provider connection fails: the socket's 'error' or 'close' event, or a
\* send on the open socket that throws.
ProviderFailure ==
    \/ OnSocketError \/ OnSocketClose
    \/ RedisOnSocketError \/ RedisOnSocketClose
    \/ \E p \in PromiseIds, msg \in AiMsgs :
           /\ msg.sendThrows /\ SocketWritable
           /\ OnAiMessage(p, msg) \/ RedisOnAiMessage(p, msg)

\* The connection has no live session left to clean, or its cleanup has begun.
CleanupStarted ==
    \/ sessionPromise = 0
    \/ isCleanedUp
    \/ promise[sessionPromise].state = "rejected"
    \/ CleanupBegunFor(sessionPromise)

\* C22: no exception of a provider-socket send leaves callbacks.onmessage, and
\* every provider-connection failure starts the cleanup of the session.
C22_ProviderFailureCleansUp ==
    /\ [](\A k \in DOMAIN written : ~written[k].escaped)
    /\ [][ProviderFailure => CleanupStarted']_vars

MediaWritesFor(i) == {k \in WritesFor(i) : written[k].event = "media"}

\* C23: for a backend message that arrives while the provider socket is open
\* (and signals no interruption) one 'media' event is written per audio part
\* of the model turn, each with the streamSid of the connection; the events of
\* different messages are written in the order of the messages.
C23_OneMediaEventPerChunk ==
    /\ \A i \in DOMAIN aiIn :
           (aiIn[i].rs = OPEN /\ ~aiIn[i].msg.interrupted)
               => /\ Cardinality(MediaWritesFor(i)) = aiIn[i].msg.chunks
                  /\ \A k \in MediaWritesFor(i) : written[k].streamSid = aiIn[i].sid
    /\ \A k, l \in DOMAIN written : k < l => written[k].seq <= written[l].seq

\* The step calls ai.live.connect: sessionPromise becomes a promise that did
\* not exist before and is pending.
OpensSession ==
    /\ sessionPromise' \notin Opened
    /\ sessionPromise' \in Opened'
    /\ promise'[sessionPromise'].state = "pending"

\* C24: ai.live.connect is called by the 'start' branch itself: every step of
\* the noise-gate 'start' branch, and every resumption of the Redis-backed
\* 'start' branch after its lookup, opens a session, with or without media
\* before it; no other step opens one, in particular no 'media' step.
C24_OpenAtStart ==
    [][/\ (\E st \in StartMsgs : OnStart(st)) => OpensSession
       /\ (\E reply \in RedisReplies, mock \in MockCaches : RedisGetSettles(reply, mock))
              => OpensSession
       /\ Opened' # Opened
              => /\ mediaIn' = mediaIn
                 /\ \/ \E st \in StartMsgs : OnStart(st)
                    \/ \E reply \in RedisReplies, mock \in MockCaches :
                           RedisGetSettles(reply, mock)]_vars

\* C24 witness: a session is open (its connect pending) although no media
\* message has arrived yet.
C24_Witness ==
    /\ sessionPromise # 0
    /\ promise[sessionPromise].state = "pending"
    /\ mediaIn = <<>>

\* The decoder's quantization step at byte b: the distance between the values
\* of neighbouring mantissas in b's segment.
QuantStep(b) == 2 * Pow2(12 - (((255 - b) \div 16) % 8))

Distance(x, y) == IF x >= y THEN x - y ELSE y - x

\* C25: for every byte b, linearToMuLaw(muLawToLinear(b)) as an 8-bit value is
\* b, or a byte that decodes to within one quantization step of what b
\* decodes to.
C25_RoundTrip ==
    codec.fn = "roundTrip" =>
        \/ codec.res[1] = codec.arg[1]
        \/ Distance(muLawToLinear(codec.res[1]), muLawToLinear(codec.arg[1]))
               <= QuantStep(codec.arg[1])

\* C26: muLawToLinear returns, for every byte, a value in the 16-bit signed
\* range.
C26_DecodedInInt16Range ==
    codec.fn = "muLawToLinear" => codec.res[1] \in Int16

\* C27: linearToMuLaw returns, for every 16-bit sample, a byte value 0..255,
\* and a sample of magnitude above 32635 encodes as the sample of magnitude
\* 32635 of the same sign does.
C27_EncodedIsByte ==
    codec.fn = "linearToMuLaw" =>
        /\ codec.res[1] \in Bytes
        /\ codec.arg[1] > 32635 => codec.res[1] = linearToMuLaw(32635)
        /\ codec.arg[1] < -32635 => codec.res[1] = linearToMuLaw(-32635)

\* q is the average of a sum over k samples, truncated toward zero.
IsTruncatedAverage(q, sum, k) ==
    IF sum >= 0 THEN k * q <= sum /\ sum < k * (q + 1)
    ELSE k * (q - 1) < sum /\ sum <= k * q

\* C28: upsampleTo16k on n samples returns 2n samples; each input sample is
\* followed by the truncated average of itself and the next one, and the last
\* input sample by a copy of itself (positions counted from 1 here).
C28_UpsampleInterpolates ==
    codec.fn = "upsampleTo16k" =>
        LET input == codec.arg
            output == codec.res
            n == Len(input)
        IN  /\ Len(output) = 2 * n
            /\ \A i \in 1..n :
                   /\ output[2 * i - 1] = input[i]
                   /\ i < n => IsTruncatedAverage(output[2 * i],
                                                  input[i] + input[i + 1], 2)
                   /\ i = n => output[2 * i] = input[n]

\* C28 witness: an upsampled buffer of several samples with a neighbouring
\* pair whose sum is negative and odd, where truncation and flooring differ.
C28_Witness ==
    /\ codec.fn = "upsampleTo16k"
    /\ Len(codec.arg) >= 3
    /\ \E i \in 1..(Len(codec.arg) - 1) :
           /\ codec.arg[i] + codec.arg[i + 1] < 0
           /\ (codec.arg[i] + codec.arg[i + 1]) % 2 = 1

\* C29: downsampleTo8k on n samples returns floor(n / 3) samples, each the
\* truncated average of one window of three input samples; the samples after
\* the last full window do not appear.
C29_DownsampleAverages ==
    codec.fn = "downsampleTo8k" =>
        LET input == codec.arg
            output == codec.res
            n == Len(input)
        IN  /\ Len(output) = n \div 3
            /\ \A i \in 1..Len(output) :
                   IsTruncatedAverage(output[i], input[3 * i - 2]
                                          + input[3 * i - 1] + input[3 * i], 3)

\* C29 witness: a downsampled buffer with trailing samples beyond its last
\* window and a window whose sum is negative and not a multiple of 3.
C29_Witness ==
    /\ codec.fn = "downsampleTo8k"
    /\ Len(codec.arg) > 3
    /\ Len(codec.arg) % 3 # 0
    /\ \E i \in 1..Len(codec.res) :
           LET sum == codec.arg[3 * i - 2] + codec.arg[3 * i - 1] + codec.arg[3 * i]
           IN  sum < 0 /\ sum % 3 # 0 /\ codec.arg[3 * i - 2] # codec.res[i]

\* C30 as stated: upsampling and then downsampling returns as many samples as
\* it was given.
C30_FrameCountPreserved ==
    codec.fn = "upThenDown" => Len(codec.res) = Len(codec.arg)

\* C30: upsampling n samples and then downsampling the result returns
\* floor(2n / 3) samples.
C30_FrameCountTwoThirds ==
    codec.fn = "upThenDown" => Len(codec.res) = (2 * Len(codec.arg)) \div 3

\* C30 witness: a buffer of three or more samples went through both, and fewer
\* samples came back.
C30_Witness ==
    /\ codec.fn = "upThenDown"
    /\ Len(codec.arg) >= 3
    /\ Len(codec.res) < Len(codec.arg)

AllZero(pcm) == \A i \in DOMAIN pcm : pcm[i] = 0

\* +32767, -32767, +32767, ... or the same starting with -32767.
FullScaleAlternating(pcm) ==
    /\ pcm # <<>>
    /\ pcm[1] \in {32767, -32767}
    /\ \A i \in 2..Len(pcm) : pcm[i] = -pcm[i - 1]

\* C31: calculateRMS returns exactly 0 for an all-zero frame and for an empty
\* frame, and exactly 32767 for a frame alternating +32767 and -32767.
C31_RmsOfSilenceAndFullScale ==
    codec.fn = "calculateRMS" =>
        /\ AllZero(codec.arg) => codec.res[1] = [whole |-> 0, exact |-> TRUE]
        /\ FullScaleAlternating(codec.arg)
               => codec.res[1] = [whole |-> 32767, exact |-> TRUE]

\* C31 witness: the RMS of a full-scale alternating frame of several samples
\* was taken.
C31_Witness ==
    /\ codec.fn = "calculateRMS"
    /\ Len(codec.arg) >= 3
    /\ FullScaleAlternating(codec.arg)
    /\ codec.res[1].whole = 32767

\* No 'start' message has been handled: both handlers assign streamSid first
\* thing in the 'start' branch and never reset it.
BeforeStart == streamSid = "null"

MediaArrives == Len(mediaIn') = Len(mediaIn) + 1

\* Frames that arrived when no session existed and no 'start' was suspended
\* at its lookup.
FramesBeforeStart == {f \in DOMAIN mediaIn : mediaIn[f].sp = 0 /\ ~mediaIn[f].lookup}

\* C32: a 'media' message that arrives before any 'start' message opens no
\* session, registers nothing for later delivery, writes nothing to the
\* provider and leaves sessionPromise, streamSid, callSid and the cleanup flag
\* as they were; the frame is never delivered to any session afterwards.
C32_MediaBeforeStartIgnored ==
    /\ [](\A p \in PromiseIds : \A i \in DOMAIN aiLog[p] :
              IsSend(aiLog[p][i]) => aiLog[p][i].f \notin FramesBeforeStart)
    /\ [][BeforeStart /\ MediaArrives
              => UNCHANGED <<sessionPromise, streamSid, callSid, isCleanedUp,
                             promise, microtasks, redisPending, aiLog, instruction,
                             written, callUpdates, transfers, closing>>]_vars

\* C32 witness: a frame arrived before 'start', and afterwards a session was
\* opened and received a later frame.
C32_Witness ==
    /\ 1 \in FramesBeforeStart
    /\ \E p \in PromiseIds : \E i \in DOMAIN aiLog[p] :
           IsSend(aiLog[p][i]) /\ aiLog[p][i].f = 2

\* client.calls(callSid).update throws for one of the suspended toolCall
\* branches.
UpdateFails == \E i \in 1..MaxAiMsgs : RedisUpdateSettles(i, FALSE)

\* C33: when the call-control update of a transfer throws, the callback
\* resumes in its catch: the provider socket keeps its state, no close of the
\* AI session is called or registered, nothing is written, and the session
\* and its identifiers stay as they were.
C33_FailedTransferKeepsSession ==
    [][UpdateFails
          => UNCHANGED <<readyState, sessionPromise, streamSid, callSid, promise,
                         microtasks, aiLog, written, closing>>]_vars

\* C33 witness: a transfer's update has thrown (it settled and the socket is
\* still open), and a caller frame accepted after that is on its way to the
\* session: the update cannot settle while a reaction is runnable, so the
\* frame arrived afterwards.
C33_Witness ==
    /\ variant = "redis"
    /\ callUpdates # <<>>
    /\ transfers = <<>>
    /\ readyState = OPEN
    /\ ~closing.begun
    /\ microtasks # <<>>
    /\ Head(microtasks).r.k = "send"
    /\ Head(microtasks).outcome = "resolved"

\* The socket 'close' handler has run to its end: the socket is closed and no
\* continuation of the handler waits on a promise or is runnable.
CloseHandlerDone ==
    /\ readyState = CLOSED
    /\ \A p \in PromiseIds : \A i \in DOMAIN promise[p].reactions :
           promise[p].reactions[i].k # "closeHandler"
    /\ \A i \in DOMAIN microtasks : microtasks[i].r.k # "closeHandler"

\* C34: an instruction key exists only for a callSid whose call /make-call
\* created successfully; once the connection of a callSid has closed and its
\* 'close' handler is through, the key of that callSid is absent; and a
\* request without 'to' creates no call and stores nothing.
C34_InstructionKeyLifetime ==
    /\ \A c \in redisKeys :
           \E i \in DOMAIN requests : requests[i].sid = c /\ requests[i].stored = "redis"
    /\ (CloseHandlerDone /\ callSid # "null") => callSid \notin redisKeys
    /\ \A i \in DOMAIN requests :
           requests[i].to = "" => /\ requests[i].sid = "none"
                                  /\ requests[i].stored = "none"
                                  /\ requests[i].status = 400

ToolResponsePending(m) == m.k = "toolResponse"

\* sendToolResponse calls registered on the session promise or runnable.
PendingToolResponses ==
    Cardinality({i \in DOMAIN agent.reactions : ToolResponsePending(agent.reactions[i])})
        + Cardinality({i \in DOMAIN agent.microtasks :
                          ToolResponsePending(agent.microtasks[i].r)})

DisconnectsDone ==
    /\ agent.microtasks = <<>>
    /\ agent.cleanups = <<>>
    /\ agent.timers = 0
    /\ \A i \in DOMAIN agent.reactions : agent.reactions[i].k # "disconnect"

\* C36: in the dashboard agent of part_003, whatever the interleaving of the
\* invocations of disconnect, session.close() is called at most once per
\* call, and once two or more invocations are through callState is SUMMARY or
\* IDLE and connectionState is DISCONNECTED.
C36_DisconnectIdempotent ==
    agent.part = "part_003" =>
        /\ agent.closeCalls <= 1
        /\ (agent.disconnects >= 2 /\ DisconnectsDone)
               => /\ agent.callState \in {"SUMMARY", "IDLE"}
                  /\ agent.connectionState = "DISCONNECTED"

HasId(customers, customerId) == \E i \in DOMAIN customers : customers[i].id = customerId

UniqueIds(customers) ==
    \A i, j \in DOMAIN customers : customers[i].id = customers[j].id => i = j

Changed(before, after) == {i \in DOMAIN before : after[i] # before[i]}

\* db.saveCustomers was called once, and the store holds the list that was set.
Persisted(before, after) ==
    /\ after.saves = before.saves + 1
    /\ after.stored = <<after.customers>>

\* C37: handleCallComplete for the id of an existing customer appends the
\* record to the end of the history of the customer with that id and leaves
\* every other customer, and the order of the list, as it was; for 'TEMP' with
\* a profile it puts one new customer, whose history is that record alone, in
\* front of the unchanged existing customers; both times the list it set is
\* the list it handed to db.saveCustomers.
C37_CallCompleteUpdatesOneCustomer ==
    [][\A customerId \in CustomerIds, record \in Records, profile \in Profiles :
          HandleCallComplete(customerId, record, profile) =>
              /\ (customerId = "TEMP" /\ profile # Undefined) =>
                     /\ Len(app'.customers) = Len(app.customers) + 1
                     /\ Tail(app'.customers) = app.customers
                     /\ Head(app'.customers).history = <<record>>
                     /\ Head(app'.customers).name = profile.name
                     /\ Persisted(app, app')
              /\ (customerId # "TEMP" /\ HasId(app.customers, customerId)) =>
                     /\ Len(app'.customers) = Len(app.customers)
                     /\ \A i \in DOMAIN app.customers :
                            IF app.customers[i].id = customerId
                            THEN /\ app'.customers[i].history =
                                        Append(app.customers[i].history, record)
                                 /\ app'.customers[i].id = customerId
                                 /\ app'.customers[i].name = app.customers[i].name
                            ELSE app'.customers[i] = app.customers[i]
                     /\ UniqueIds(app.customers) =>
                            Cardinality(Changed(app.customers, app'.customers)) = 1
                     /\ Persisted(app, app')]_vars

\* A call of an unknown caller was completed after a call of an existing
\* customer who is not the first of the list and had a call on record: the new
\* customer heads the list, the record closes the other one's history, and the
\* store holds that list.
C37_Witness ==
    /\ app.completed >= 2
    /\ Len(app.customers) >= 3
    /\ Head(app.customers).id = NewId(app.clock)
    /\ Len(Head(app.customers).history) = 1
    /\ \E i \in 3..Len(app.customers) :
           /\ Len(app.customers[i].history) >= 2
           /\ app.customers[i].history[Len(app.customers[i].history)] \in Records
           /\ app.customers[i].history[1] \notin Records
    /\ app.stored = <<app.customers>>
====
